---- MODULE Spec2Model ----
(***************************************************************************)
(* Accessible head-controlled driving: the input stabilizer                *)
(* (driving_assistant.py) and the key-command machines of the three        *)
(* drivers (enhanced_accessible_drive.py, accessible_face_drive.py,        *)
(* simple_head_drive.py).                                                  *)
(*                                                                         *)
(* SpecDA  : one DrivingAssistant object, steering channel.                *)
(* Spec    : one driver object (enhanced, accessible or simple) running    *)
(*           its control loop against the key-injection interface.         *)
(* SpecAssist : the same object, steering and throttle channels.           *)
(* SpecKeys: the key operations called one after another.                  *)
(* SpecFatigue, SpecPredictor, SpecFilter, SpecTremor : one FatigueMonitor,*)
(*           MotionPredictor, CompositeFilter, TremorDetector object.      *)
(* SpecSimpleStop : Spec with the worker thread of run() kept scheduled.   *)
(* SpecNotify : the event queue between the driver and DriveUI (app.py).   *)
(* SpecConfig : the reverse thresholds as the enhanced driver loads them.  *)
(* SpecMotion : determine_motion_state called again and again.             *)
(* SpecDebounce : the two stabilized channels of one DrivingAssistant.     *)
(* SpecHistory, SpecWindow, SpecFatigueCalls : the predictor's histories,  *)
(*           the detector's sample window, the monitor with reset().       *)
(* SpecAxes  : two CompositeFilter runs that agree on one axis.            *)
(* SpecUI    : DriveUI, its Start/Stop buttons and its worker threads.     *)
(* SpecSteady, SpecSteadyLive : a steering input that stops changing.      *)
(***************************************************************************)
EXTENDS Integers, Sequences, FiniteSets, TLC

VARIABLES
    \* ---- DrivingAssistant fields (driving_assistant.py) ----
    assistance_level,            \* self.assistance_level
    direction_change_threshold,  \* self.direction_change_threshold
    auto_center_enabled,         \* self.auto_center_enabled
    direction_counter,           \* self.direction_counter
    stable_direction,            \* self.stable_direction
    steering_result,             \* value returned by process_steering, "none" once another call returned
    throttle_counter,            \* self.throttle_counter
    stable_throttle,             \* self.stable_throttle
    throttle_result,             \* value returned by process_throttle, likewise
    direct_call,                 \* the arguments of the call just made at level 0
    \* ---- observers of the steering input sequence ----
    steer_run,                   \* current run of identical raw candidates
    steer_alt,                   \* alternation record since construction/reset
    scen_idx                     \* progress through the end-to-end yaw scenario

VARIABLES
    \* ---- driver object and its run loop ----
    driver,            \* the class constructed: "enhanced", "accessible", "simple"
    cfg,               \* the configuration read by __init__
    pc,                \* position of run(): "frame", "keyboard", "stopped", "aborted", ...
    calibrated,        \* self.calibrated
    is_paused,         \* self.is_paused
    last_active_keys,  \* self.last_active_keys
    motion_state,      \* self.motion_state
    reverse_active,    \* self.reverse_active
    reverse_counter,   \* self.reverse_counter
    \* ---- key-injection interface (pyautogui) ----
    down,              \* keys the OS holds down: last successful injection was keyDown
    failsafe_errors,   \* fail-safe interlock errors raised so far
    \* ---- observers ----
    lost_clock,        \* time since perception began to fail without a break, -1 for None
    frame,             \* what the last loop iteration did
    key_op,            \* the last key operation called on the driver object
    stop_requested,    \* SimpleHeadControlledDrive.stop_requested
    \* ---- signal components, one object each ----
    fatigue,           \* a FatigueMonitor (fatigue_monitor.py)
    predictor,         \* a MotionPredictor (motion_predictor.py)
    filter,            \* an AdaptiveKalmanFilter / CompositeFilter (advanced_filters.py)
    tremor,            \* a TremorDetector (tremor_detector.py)
    ui                 \* the event queue of DriveUI and its producer (app.py)

drvVars == <<driver, cfg, pc, calibrated, is_paused, last_active_keys,
             motion_state, reverse_active, reverse_counter,
             down, failsafe_errors, lost_clock, frame, key_op,
             stop_requested>>

compVars == <<fatigue, predictor, filter, tremor, ui>>

thrVars == <<throttle_counter, stable_throttle>>

daVars == <<assistance_level, direction_change_threshold, auto_center_enabled,
            direction_counter, stable_direction, steering_result,
            steer_run, steer_alt, scen_idx, thrVars, throttle_result,
            direct_call>>

vars == <<daVars, drvVars, compVars>>

-----------------------------------------------------------------------------
(* Bounds *)

\* cap on the debounce counters, which the code never bounds
MaxCount == 4

\* largest throttle counter explored
MaxThrottleCount == 2

\* cap on the number of fail-safe interlock errors the environment raises
MaxFailSafeErrors == 2

\* configured reverse_activation_frames
ReverseFrames == 2

\* pause_delay_seconds of the safety configuration
PauseDelay == 3

-----------------------------------------------------------------------------
(* DrivingAssistant *)

\* dict insertion order of direction_counter: 'left', 'right', 'center'
DirectionOrder == <<"left", "right", "center">>

Directions == {"left", "right", "center"}

\* yaw angles and sensitivities offered to process_steering
Yaws == {-20, -15, -12, 18, 19, 20, 22}

Sensitivities == {12, 15}

\* arguments offered to set_assistance_level and to the constructor
LevelArgs == -1 .. 5

InitLevels == 0 .. 3

Max2(a, b) == IF a >= b THEN a ELSE b

Min2(a, b) == IF a <= b THEN a ELSE b

RawDirectionMirrored(yaw_angle, sensitivity) ==
    IF yaw_angle < -sensitivity THEN "right"
    ELSE IF yaw_angle > sensitivity THEN "left"
    ELSE "center"

\* the threshold comparison of process_steering
RawDirection(yaw_angle, sensitivity) ==
    IF yaw_angle < -sensitivity THEN "left"
    ELSE IF yaw_angle > sensitivity THEN "right"
    ELSE "center"

BumpCountersNoDecay(counter, raw) ==
    [d \in DOMAIN counter |-> IF d = raw THEN counter[d] + 1 ELSE counter[d]]

\* counter update of _stabilize_direction: +1 for the raw candidate,
\* -1 floored at 0 for every other candidate
BumpCounters(counter, raw) ==
    [d \in DOMAIN counter |->
        IF d = raw THEN counter[d] + 1 ELSE Max2(0, counter[d] - 1)]

\* first candidate, in dict order from position i, whose count has reached
\* the threshold; "none" when there is none
RECURSIVE FirstAtThreshold(_, _, _, _)
FirstAtThreshold(counter, order, threshold, i) ==
    IF i > Len(order) THEN "none"
    ELSE IF counter[order[i]] >= threshold THEN order[i]
    ELSE FirstAtThreshold(counter, order, threshold, i + 1)

\* the scan taking any candidate that has been counted at all
LatchAnyCounted(counter, order, threshold, stable) ==
    LET hit == FirstAtThreshold(counter, order, 1, 1)
    IN  IF hit = "none" THEN stable ELSE hit

\* the scan taking a candidate only at the frame its count equals the
\* threshold
LatchOnExactCount(counter, order, threshold, stable) ==
    IF counter[order[1]] = threshold THEN order[1]
    ELSE IF counter[order[2]] = threshold THEN order[2]
    ELSE IF counter[order[3]] = threshold THEN order[3]
    ELSE stable

\* the latched value after the scan of _stabilize_direction
Latch(counter, order, threshold, stable) ==
    LET hit == FirstAtThreshold(counter, order, threshold, 1)
    IN  IF hit = "none" THEN stable ELSE hit

FreshCounter == [d \in Directions |-> 0]

\* dict insertion order of throttle_counter
ThrottleOrder == <<"forward", "backward", "neutral">>

FreshThrottleCounter ==
    [d \in {"forward", "backward", "neutral"} |-> 0]

\* pitch angles and (forward_threshold, backward_threshold) pairs offered
\* to process_throttle: its defaults and the pair the enhanced driver passes
ThrottlePitches == {-11, 0, 11}

ThrottleThresholds == {<<-10, 10>>, <<-12, 12>>}

RawThrottleSwapped(pitch_angle, forward_threshold, backward_threshold) ==
    IF pitch_angle < forward_threshold THEN "backward"
    ELSE IF pitch_angle > backward_threshold THEN "forward"
    ELSE "neutral"

\* the threshold comparison of process_throttle
RawThrottle(pitch_angle, forward_threshold, backward_threshold) ==
    IF pitch_angle < forward_threshold THEN "forward"
    ELSE IF pitch_angle > backward_threshold THEN "backward"
    ELSE "neutral"

NoCall == [kind |-> "none", angle |-> 0, lo |-> 0, hi |-> 0]

\* the end-to-end scenario of test_driving_assistant
ScenarioYaws == <<20, -15, 18, -12, 20, 22, 20, 19>>

ScenarioSensitivity == 15

NoRun == [raw |-> "none", len |-> 0]

FreshAlt == [ok |-> TRUE, last |-> <<>>, n |-> 0]

BrokenAlt == [ok |-> FALSE, last |-> <<>>, n |-> 0]

\* the alternation record after one more stabilized call with candidate raw
NextAlt(alt, raw) ==
    LET n == Min2(alt.n + 1, MaxCount + 1)
    IN  IF ~alt.ok THEN BrokenAlt
        ELSE IF Len(alt.last) = 0 THEN [ok |-> TRUE, last |-> <<raw>>, n |-> n]
        ELSE IF Len(alt.last) = 1
             THEN IF raw # alt.last[1]
                  THEN [ok |-> TRUE, last |-> <<alt.last[1], raw>>, n |-> n]
                  ELSE BrokenAlt
        ELSE IF raw = alt.last[1] /\ raw # alt.last[2]
             THEN [ok |-> TRUE, last |-> <<alt.last[2], raw>>, n |-> n]
             ELSE BrokenAlt

NextRun(run, raw) ==
    IF run.raw = raw THEN [raw |-> raw, len |-> Min2(run.len + 1, MaxCount + 1)]
    ELSE [raw |-> raw, len |-> 1]

\* the driver variables when only a DrivingAssistant is under study
\* the configuration entries the drivers read
Cfg(failsafe, auto_recover, safe_margin, auto_accelerate, enable_auto_pause) ==
    [failsafe |-> failsafe, auto_recover |-> auto_recover,
     safe_margin |-> safe_margin, auto_accelerate |-> auto_accelerate,
     enable_auto_pause |-> enable_auto_pause]

\* the record of the last loop iteration: what the camera and the perception
\* gave, how long the signal had been lost, the keyboard key read, and
\* whether cleanup ran
NoFrame ==
    [kind |-> "none", lost_elapsed |-> -1, direction |-> "center",
     toggle |-> FALSE, key |-> "none", cleanup |-> FALSE]

\* the record of the last key operation called on the driver object
NoOp ==
    [name |-> "none", prev |-> {}, desired |-> {}, events |-> <<>>,
     raised |-> FALSE]

-----------------------------------------------------------------------------
(* The signal components as constructed *)

\* a fraction <<numerator, denominator>> in lowest terms
RECURSIVE GCD(_, _)
GCD(a, b) == IF b = 0 THEN a ELSE GCD(b, a % b)

Q(n, d) ==
    IF n = 0 THEN <<0, 1>>
    ELSE LET g == GCD(IF n < 0 THEN -n ELSE n, d) IN <<n \div g, d \div g>>

\* the simulated session: first values and per-update steps of the two
\* inputs, and the wall time between two calls
Sessions ==
    [v0 : {1}, dv : {1, 2}, c0 : {0, 1}, dc : {0, 1}, dt : {30, 60}]

\* FatigueMonitor.__init__, the clock at 0; op, prev_score, used, prev_used,
\* strict, updates, pauses, breaks and resets observe the calls made
FreshFatigue(session) ==
    [session |-> session, now |-> 0,
     session_start_time |-> 0, total_active_time |-> 0,
     last_update_time |-> 0,
     input_precision_history |-> <<>>,
     correction_frequency_history |-> <<>>,
     fatigue_score |-> Q(0, 1), fatigue_level |-> "None",
     last_break_time |-> 0,
     op |-> "none", prev_score |-> Q(0, 1), used |-> {}, prev_used |-> {},
     strict |-> TRUE, updates |-> 0, pauses |-> 0, breaks |-> 0,
     resets |-> 0]

\* MotionPredictor.__init__(prediction_steps, history_length); slope and
\* level are the ramp x = i * slope, y = level the caller means to feed;
\* op, result, updates, on_ramp, jumps and prev observe the calls made
FreshPredictor(prediction_steps, history_length, slope, level) ==
    [prediction_steps |-> prediction_steps,
     history_length |-> history_length,
     position_history |-> <<>>, velocity_history |-> <<>>,
     acceleration_history |-> <<>>,
     last_prediction |-> <<Q(0, 1), Q(0, 1)>>,
     slope |-> slope, level |-> level,
     op |-> "none", result |-> <<Q(0, 1), Q(0, 1)>>,
     updates |-> 0, on_ramp |-> TRUE, jumps |-> 0,
     fed |-> <<>>,
     prev |-> [op |-> "none", result |-> <<Q(0, 1), Q(0, 1)>>,
               position_history |-> <<>>, velocity_history |-> <<>>,
               acceleration_history |-> <<>>]]

\* floats of the filters are carried in thousandths
Scale == 1000

\* DoubleExponentialSmoothing.__init__; level and trend None read as 0
FreshDES(alpha, beta) ==
    [alpha |-> alpha, beta |-> beta, level |-> 0, trend |-> 0,
     initialized |-> FALSE]

\* AdaptiveKalmanFilter.__init__(process_variance, measurement_variance)
FreshKalman(process_variance, measurement_variance) ==
    [q |-> process_variance, r |-> measurement_variance,
     x |-> 0, p |-> Scale, innovation_history |-> <<>>,
     adapt_rate |-> (95 * Scale) \div 100]

\* LowPassFilter.__init__; value None reads as has_value FALSE
FreshLowPass(alpha) == [alpha |-> alpha, value |-> 0, has_value |-> FALSE]

\* the stage objects CompositeFilter.__init__ builds; a stage the
\* configuration switches off is never called
FreshStages(config) ==
    [des_x |-> FreshDES(config.des_alpha, config.des_beta),
     des_y |-> FreshDES(config.des_alpha, config.des_beta),
     kalman_x |-> FreshKalman(config.kalman_q, config.kalman_r),
     kalman_y |-> FreshKalman(config.kalman_q, config.kalman_r),
     lowpass_x |-> FreshLowPass(config.lowpass_alpha),
     lowpass_y |-> FreshLowPass(config.lowpass_alpha)]

\* config.get(...) with the defaults of CompositeFilter.__init__
FilterConfig(use_des, use_kalman, use_lowpass, kalman_r) ==
    [use_des |-> use_des, use_kalman |-> use_kalman,
     use_lowpass |-> use_lowpass,
     des_alpha |-> (3 * Scale) \div 10, des_beta |-> Scale \div 10,
     kalman_q |-> Scale \div 100, kalman_r |-> kalman_r,
     lowpass_alpha |-> (3 * Scale) \div 10]

\* CompositeFilter.__init__(config); op, result, calls and resets observe
\* the calls made, twin is a cascade built anew at the last reset and fed
\* the same samples since
FreshFilter(config) ==
    [config |-> config, stages |-> FreshStages(config),
     output_history |-> <<>>,
     op |-> "none", result |-> <<0, 0>>, calls |-> 0, resets |-> 0,
     twin_on |-> FALSE, twin |-> FreshStages(config),
     twin_result |-> <<0, 0>>]

DefaultFilterConfig == FilterConfig(TRUE, TRUE, FALSE, Scale \div 10)

\* time.time() at construction, in milliseconds
Epoch == 100000

\* TremorDetector.__init__ with the default configuration; times in
\* milliseconds, scores in thousandths.  pattern and slope are the movement
\* the caller means to feed; now, op, result and updates observe the calls
FreshTremor(pattern, slope) ==
    [position_history |-> <<>>, timestamp_history |-> <<>>,
     tremor_detected |-> FALSE, tremor_intensity |-> 0,
     tremor_frequency |-> 0,
     last_large_movement_time |-> 0, intention_confidence |-> 0,
     pattern |-> pattern, slope |-> slope, now |-> Epoch,
     op |-> "none", updates |-> 0, resets |-> 0,
     result |-> [tremor_detected |-> FALSE, tremor_intensity |-> 0,
                 tremor_frequency |-> 0, intention_confidence |-> 0,
                 recommended_filter_strength |-> 0]]

\* no component object is in play
\* DriveUI.__init__ with its empty event queue, and a driver constructed
\* with the given status_callback, about to run its loop
FreshUI(status_callback) ==
    [status_callback |-> status_callback,
     event_queue |-> <<>>,
     loop |-> "running",
     op |-> "init",
     unread |-> 0,
     enqueues |-> 0,
     raised |-> FALSE]

CompIdle ==
    /\ fatigue = FreshFatigue([v0 |-> 1, dv |-> 1, c0 |-> 0, dc |-> 0,
                               dt |-> 30])
    /\ predictor = FreshPredictor(2, 10, 0, 0)
    /\ filter = FreshFilter(DefaultFilterConfig)
    /\ tremor = FreshTremor("ramp", 0)
    /\ ui = FreshUI("queue_event")

NoDriver ==
    /\ driver = "none"
    /\ cfg = Cfg(FALSE, FALSE, 20, FALSE, FALSE)
    /\ pc = "none"
    /\ calibrated = FALSE
    /\ is_paused = FALSE
    /\ last_active_keys = {}
    /\ motion_state = "neutral"
    /\ reverse_active = FALSE
    /\ reverse_counter = 0
    /\ down = {}
    /\ failsafe_errors = 0
    /\ lost_clock = -1
    /\ frame = NoFrame
    /\ key_op = NoOp
    /\ stop_requested = FALSE

\* DrivingAssistant(assistance_level=L): the constructor stores L and leaves
\* the threshold at 3 whatever L is
DAInit ==
    /\ assistance_level \in InitLevels
    /\ direction_change_threshold = 3
    /\ auto_center_enabled = FALSE
    /\ direction_counter = FreshCounter
    /\ stable_direction = "center"
    /\ steering_result = "none"
    /\ throttle_counter = FreshThrottleCounter
    /\ stable_throttle = "neutral"
    /\ throttle_result = "none"
    /\ direct_call = NoCall
    /\ steer_run = NoRun
    /\ steer_alt = FreshAlt
    /\ scen_idx = IF assistance_level = 2 THEN 0 ELSE -1
    /\ NoDriver
    /\ CompIdle

\* set_assistance_level(level)
SetAssistanceLevel(level) ==
    /\ assistance_level' = Max2(0, Min2(3, level))
    /\ auto_center_enabled' =
         IF level \in {0, 1, 2} THEN FALSE
         ELSE IF level = 3 THEN TRUE
         ELSE auto_center_enabled
    /\ direction_change_threshold' =
         IF level \in 0 .. 3 THEN level + 1 ELSE direction_change_threshold
    /\ steer_run' = NoRun
    /\ steer_alt' = BrokenAlt
    /\ scen_idx' = -1
    /\ direct_call' = NoCall
    /\ UNCHANGED <<direction_counter, stable_direction, steering_result,
                   thrVars, throttle_result>>
    /\ UNCHANGED <<drvVars, compVars>>

\* process_steering(yaw_angle, sensitivity) at assistance level 0
ProcessSteeringDirect(yaw_angle, sensitivity) ==
    /\ assistance_level = 0
    /\ steering_result' = RawDirection(yaw_angle, sensitivity)
    /\ steer_run' = NoRun
    /\ steer_alt' = BrokenAlt
    /\ scen_idx' = -1
    /\ direct_call' = [kind |-> "steering", angle |-> yaw_angle,
                       lo |-> -sensitivity, hi |-> sensitivity]
    /\ throttle_result' = "none"
    /\ UNCHANGED <<assistance_level, direction_change_threshold,
                   auto_center_enabled, direction_counter, stable_direction,
                   thrVars>>
    /\ UNCHANGED <<drvVars, compVars>>

\* process_steering(yaw_angle, sensitivity) at assistance levels 1-3,
\* _stabilize_direction included
ProcessSteeringStabilized(yaw_angle, sensitivity) ==
    LET raw == RawDirection(yaw_angle, sensitivity)
        counter == BumpCounters(direction_counter, raw)
        latched == Latch(counter, DirectionOrder,
                         direction_change_threshold, stable_direction)
    IN  /\ assistance_level # 0
        /\ direction_counter[raw] < MaxCount
        /\ direction_counter' = counter
        /\ stable_direction' = latched
        /\ steering_result' = latched
        /\ steer_run' = NextRun(steer_run, raw)
        /\ steer_alt' = IF direction_change_threshold >= 2
                        THEN NextAlt(steer_alt, raw) ELSE BrokenAlt
        /\ scen_idx' =
             IF /\ scen_idx >= 0
                /\ scen_idx < Len(ScenarioYaws)
                /\ yaw_angle = ScenarioYaws[scen_idx + 1]
                /\ sensitivity = ScenarioSensitivity
             THEN scen_idx + 1 ELSE -1
        /\ direct_call' = NoCall
        /\ throttle_result' = "none"
        /\ UNCHANGED <<assistance_level, direction_change_threshold,
                       auto_center_enabled, thrVars>>
        /\ UNCHANGED <<drvVars, compVars>>

\* process_throttle(pitch_angle, forward_threshold, backward_threshold) at
\* assistance level 0
ProcessThrottleDirect(pitch_angle, forward_threshold, backward_threshold) ==
    /\ assistance_level = 0
    /\ throttle_result' =
         RawThrottle(pitch_angle, forward_threshold, backward_threshold)
    /\ direct_call' = [kind |-> "throttle", angle |-> pitch_angle,
                       lo |-> forward_threshold, hi |-> backward_threshold]
    /\ steering_result' = "none"
    /\ UNCHANGED <<assistance_level, direction_change_threshold,
                   auto_center_enabled, direction_counter, stable_direction,
                   steer_run, steer_alt, scen_idx,
                   throttle_counter, stable_throttle>>
    /\ UNCHANGED <<drvVars, compVars>>

\* process_throttle at assistance levels 1-3, _stabilize_throttle included
ProcessThrottleStabilized(pitch_angle, forward_threshold, backward_threshold) ==
    LET raw == RawThrottle(pitch_angle, forward_threshold,
                           backward_threshold)
        counter == BumpCounters(throttle_counter, raw)
        latched == Latch(counter, ThrottleOrder,
                         direction_change_threshold, stable_throttle)
    IN  /\ assistance_level # 0
        /\ throttle_counter[raw] < MaxThrottleCount
        /\ throttle_counter' = counter
        /\ stable_throttle' = latched
        /\ throttle_result' = latched
        /\ direct_call' = NoCall
        /\ steering_result' = "none"
        /\ UNCHANGED <<assistance_level, direction_change_threshold,
                       auto_center_enabled, direction_counter,
                       stable_direction, steer_run, steer_alt, scen_idx>>
        /\ UNCHANGED <<drvVars, compVars>>

\* reset()
DAReset ==
    /\ stable_direction' = "center"
    /\ direction_counter' = FreshCounter
    /\ steer_run' = NoRun
    /\ steer_alt' = FreshAlt
    /\ scen_idx' = -1
    /\ stable_throttle' = "neutral"
    /\ throttle_counter' = FreshThrottleCounter
    /\ direct_call' = NoCall
    /\ UNCHANGED <<assistance_level, direction_change_threshold,
                   auto_center_enabled, steering_result, throttle_result>>
    /\ UNCHANGED <<drvVars, compVars>>

DANext ==
    \/ \E level \in LevelArgs : SetAssistanceLevel(level)
    \/ \E y \in Yaws, s \in Sensitivities : ProcessSteeringDirect(y, s)
    \/ \E y \in Yaws, s \in Sensitivities : ProcessSteeringStabilized(y, s)
    \/ DAReset

SpecDA == DAInit /\ [][DANext]_vars

\* Both channels of the assistant.  The stabilized calls, which only serve
\* to load the counters and the latched values, take one input per outcome
\* and stop at the smaller counter bound.
LoadingYaws == {-20, 0, 20}

\* yaw angles on and either side of both sensitivities
DirectYaws == {-15, -12, 18}

LoadingPitches == {-15, 0, 15}

LoadSteering(yaw_angle) ==
    /\ direction_counter[RawDirection(yaw_angle, ScenarioSensitivity)]
           < MaxThrottleCount
    /\ ProcessSteeringStabilized(yaw_angle, ScenarioSensitivity)

LoadThrottle(pitch_angle) ==
    ProcessThrottleStabilized(pitch_angle, -10, 10)

AssistNext ==
    \/ \E level \in LevelArgs : SetAssistanceLevel(level)
    \/ \E y \in DirectYaws, s \in Sensitivities : ProcessSteeringDirect(y, s)
    \/ \E y \in LoadingYaws : LoadSteering(y)
    \/ \E p \in ThrottlePitches, th \in ThrottleThresholds :
         ProcessThrottleDirect(p, th[1], th[2])
    \/ \E p \in LoadingPitches : LoadThrottle(p)
    \/ DAReset

SpecAssist == DAInit /\ [][AssistNext]_vars

-----------------------------------------------------------------------------
(* Key bindings and the key-injection interface (pyautogui) *)

KeyForward == "z"

KeyBackward == "s"

KeyLeft == "q"

KeyRight == "d"

Keys == {KeyForward, KeyBackward, KeyLeft, KeyRight}

\* screen size returned by pyautogui.size()
ScreenWidth == 1920

ScreenHeight == 1080

\* self.pyautogui_safe_margin = max(1, int(safe_margin))
SafeMargin(configured) == Max2(1, configured)

\* center_x and center_y of _recover_cursor_from_failsafe
RecoverCoordinate(size, margin) ==
    Max2(margin, Min2(size - margin, size \div 2))

\* the point handed to pyautogui.moveTo
RecoverTarget(margin) ==
    <<RecoverCoordinate(ScreenWidth, margin),
      RecoverCoordinate(ScreenHeight, margin)>>

\* pyautogui.FAILSAFE while the driver runs: the enhanced driver takes it
\* from its configuration, the accessible driver leaves the library default
\* (on), the simple driver switches it off in __init__
FailSafeOn ==
    CASE driver = "enhanced" -> cfg.failsafe
      [] driver = "accessible" -> TRUE
      [] OTHER -> FALSE

\* the orders in which the elements of a set can be iterated
Orderings(S) ==
    {s \in [1 .. Cardinality(S) -> S] :
        \A i, j \in 1 .. Cardinality(S) : i # j => s[i] # s[j]}

\* the most attempts the driver at hand makes for one key event
MaxAttempts ==
    IF driver = "enhanced" /\ cfg.auto_recover THEN 2 ELSE 1

\* whether a FailSafeException leaves the key operation it occurs in
Propagates ==
    \/ driver = "enhanced" /\ ~cfg.auto_recover
    \/ driver = "accessible"

RECURSIVE SumTo(_, _)
SumTo(f, n) == IF n = 0 THEN 0 ELSE f[n] + SumTo(f, n - 1)

\* what the environment does to a run of n key events: for each event the
\* number of leading attempts on which pyautogui raises FailSafeException
Plans(n, errors) ==
    IF ~FailSafeOn THEN {[i \in 1 .. n |-> 0]}
    ELSE {p \in [1 .. n -> 0 .. MaxAttempts] :
            /\ errors + SumTo(p, n) <= MaxFailSafeErrors
            /\ \A i \in 1 .. n :
                 (p[i] > 0 /\ Propagates) => \A j \in i + 1 .. n : p[j] = 0}

\* the OS key state after a successful injection
Inject(action, key, dn) ==
    IF action = "keyDown" THEN dn \cup {key} ELSE dn \ {key}

\* attempts = 2 if self.pyautogui_auto_recover else 1
Attempts(auto_recover) == IF auto_recover THEN 2 ELSE 1

ReraisesAlways(auto_recover) == TRUE

\* if not self.pyautogui_auto_recover: raise
Reraises(auto_recover) == ~auto_recover

RecoversOnEvery(attempt) == TRUE

\* if attempt == 0: self._recover_cursor_from_failsafe()
RecoversOn(attempt) == attempt = 0

\* one pass of the attempt loop of _perform_key_action, from `attempt` on;
\* pyautogui checks the fail-safe before it injects, so an attempt that
\* raises leaves the key state as it was
RECURSIVE KeyAttempt(_, _, _, _, _, _)
KeyAttempt(attempt, action, key, raises, dn, recov) ==
    IF attempt >= Attempts(cfg.auto_recover)
    THEN [ret |-> "False", attempts |-> attempt, recoveries |-> recov,
          down |-> dn]
    ELSE IF attempt >= raises
    THEN [ret |-> "True", attempts |-> attempt + 1, recoveries |-> recov,
          down |-> Inject(action, key, dn)]
    ELSE IF Reraises(cfg.auto_recover)
    THEN [ret |-> "raise", attempts |-> attempt + 1, recoveries |-> recov,
          down |-> dn]
    ELSE IF RecoversOn(attempt)
    THEN KeyAttempt(attempt + 1, action, key, raises, dn,
                    Append(recov, RecoverTarget(SafeMargin(cfg.safe_margin))))
    ELSE [ret |-> "False", attempts |-> attempt + 1, recoveries |-> recov,
          down |-> dn]

\* EnhancedAccessibleDriving._perform_key_action(action, key)
PerformKeyAction(action, key, raises, dn) ==
    KeyAttempt(0, action, key, raises, dn, <<>>)

\* AccessibleHeadControlledDriving: pyautogui.keyUp(key) / keyDown(key)
\* called bare
RawKeyAction(action, key, raises, dn) ==
    IF raises = 0
    THEN [ret |-> "True", attempts |-> 1, recoveries |-> <<>>,
          down |-> Inject(action, key, dn)]
    ELSE [ret |-> "raise", attempts |-> 1, recoveries |-> <<>>, down |-> dn]

\* SimpleHeadControlledDrive._update_keys: the call inside
\* try / except pyautogui.FailSafeException: pass
GuardedKeyAction(action, key, raises, dn) ==
    IF raises = 0
    THEN [ret |-> "True", attempts |-> 1, recoveries |-> <<>>,
          down |-> Inject(action, key, dn)]
    ELSE [ret |-> "False", attempts |-> 1, recoveries |-> <<>>, down |-> dn]

\* one key event as the driver at hand issues it
KeyEvent(action, key, raises, dn) ==
    CASE driver = "enhanced" -> PerformKeyAction(action, key, raises, dn)
      [] driver = "accessible" -> RawKeyAction(action, key, raises, dn)
      [] OTHER -> GuardedKeyAction(action, key, raises, dn)

\* the number of FailSafeException raised while an event was handled
ErrorsOf(e) == IF e.ret = "True" THEN e.attempts - 1 ELSE e.attempts

\* one key event handled after the events accounted for in acc
EventStep(acc, ev, raises) ==
    LET e == KeyEvent(ev[1], ev[2], raises, acc.down)
    IN  [events |-> Append(acc.events,
                      [action |-> ev[1], key |-> ev[2],
                       attempts |-> e.attempts, recoveries |-> e.recoveries,
                       errors |-> ErrorsOf(e), ret |-> e.ret]),
         down |-> e.down,
         raised |-> e.ret = "raise",
         errors |-> acc.errors + ErrorsOf(e)]

\* a run of key events in order, cut short by the first one that raises
RECURSIVE RunEventsFrom(_, _, _, _)
RunEventsFrom(evs, plan, acc, i) ==
    IF i > Len(evs) \/ acc.raised THEN acc
    ELSE RunEventsFrom(evs, plan, EventStep(acc, evs[i], plan[i]), i + 1)

RunEvents(evs, plan, dn) ==
    RunEventsFrom(evs, plan,
                  [events |-> <<>>, down |-> dn, raised |-> FALSE,
                   errors |-> 0], 1)

\* self.last_active_keys - active_keys
ToRelease(prev, active_keys) == prev \ active_keys

\* active_keys - self.last_active_keys
ToPress(prev, active_keys) == active_keys \ prev

PressesFirst(ups, downs) ==
    [i \in 1 .. Len(downs) |-> <<"keyDown", downs[i]>>]
        \o [i \in 1 .. Len(ups) |-> <<"keyUp", ups[i]>>]

\* the events of update_key_states: the release loop, then the press loop
UpdateEvents(ups, downs) ==
    [i \in 1 .. Len(ups) |-> <<"keyUp", ups[i]>>]
        \o [i \in 1 .. Len(downs) |-> <<"keyDown", downs[i]>>]

\* the state a handler threads through its key operations
Thread ==
    [keys |-> last_active_keys, down |-> down, errors |-> failsafe_errors,
     ops |-> <<>>, raised |-> FALSE]

\* self.last_active_keys = active_keys
StoredDesired(prev, active_keys) == active_keys

\* update_key_states(active_keys); ch chooses the iteration orders of the
\* two set differences and the environment's plan
UpdateKeyStates(t, active_keys, ch) ==
    IF t.raised THEN t
    ELSE LET r == RunEvents(UpdateEvents(ch.ups, ch.downs), ch.plan, t.down)
         IN  [keys |-> IF r.raised THEN t.keys
                       ELSE StoredDesired(t.keys, active_keys),
              down |-> r.down,
              errors |-> t.errors + r.errors,
              ops |-> Append(t.ops,
                        [name |-> "update_key_states", prev |-> t.keys,
                         desired |-> active_keys, events |-> r.events,
                         raised |-> r.raised]),
              raised |-> r.raised]

UpdateChoices(t, active_keys) ==
    IF t.raised THEN {[ups |-> <<>>, downs |-> <<>>, plan |-> <<>>]}
    ELSE {[ups |-> u, downs |-> d, plan |-> p] :
            u \in Orderings(ToRelease(t.keys, active_keys)),
            d \in Orderings(ToPress(t.keys, active_keys)),
            p \in Plans(Cardinality(ToRelease(t.keys, active_keys))
                          + Cardinality(ToPress(t.keys, active_keys)),
                        t.errors)}

NotCleared(keys) == keys

\* self.last_active_keys.clear()
Cleared(keys) == {}

\* release_all_keys()
ReleaseAllKeys(t, ch) ==
    IF t.raised THEN t
    ELSE LET r == RunEvents(UpdateEvents(ch.ups, <<>>), ch.plan, t.down)
         IN  [keys |-> IF r.raised THEN t.keys ELSE Cleared(t.keys),
              down |-> r.down,
              errors |-> t.errors + r.errors,
              ops |-> Append(t.ops,
                        [name |-> "release_all_keys", prev |-> t.keys,
                         desired |-> {}, events |-> r.events,
                         raised |-> r.raised]),
              raised |-> r.raised]

ReleaseChoices(t) ==
    IF t.raised THEN {[ups |-> <<>>, downs |-> <<>>, plan |-> <<>>]}
    ELSE {[ups |-> u, downs |-> <<>>, plan |-> p] :
            u \in Orderings(t.keys),
            p \in Plans(Cardinality(t.keys), t.errors)}

\* the handler of an exception that leaves the loop: run()'s finally
\* clause starts over with the error pending
Caught(t) == [t EXCEPT !.raised = FALSE]

-----------------------------------------------------------------------------
(* EnhancedAccessibleDriving: the loop of run() *)

\* the stabilizer at rest while a driver loop is explored
DAIdle ==
    /\ assistance_level = 2
    /\ direction_change_threshold = 3
    /\ auto_center_enabled = FALSE
    /\ direction_counter = FreshCounter
    /\ stable_direction = "center"
    /\ steering_result = "none"
    /\ throttle_counter = FreshThrottleCounter
    /\ stable_throttle = "neutral"
    /\ throttle_result = "none"
    /\ direct_call = NoCall
    /\ steer_run = NoRun
    /\ steer_alt = FreshAlt
    /\ scen_idx = -1

\* reverse_pitch_threshold and reverse_pitch_release
ReversePitchThreshold == 18

ReversePitchRelease == 12

\* predicted pitch angles below, between and above the two thresholds
Pitches == {10, 15, 20}

Throttles == {"forward", "backward", "neutral"}

\* the pyautogui and head_pose settings explored for the enhanced driver
EnhancedConfigs ==
    {Cfg(TRUE, TRUE, 20, TRUE, FALSE),
     Cfg(TRUE, FALSE, 20, TRUE, FALSE),
     Cfg(FALSE, TRUE, 20, TRUE, FALSE),
     Cfg(TRUE, TRUE, 0, FALSE, FALSE),
     Cfg(TRUE, FALSE, 0, FALSE, FALSE)}

NoChoice == [ups |-> <<>>, downs |-> <<>>, plan |-> <<>>]

\* determine_motion_state with the brake branch leaving the latch alone
DetermineMotionStateKeepsLatch(pitch, throttle, mouth_brake) ==
    IF mouth_brake
    THEN [motion_state |-> "brake", reverse_active |-> reverse_active,
          reverse_counter |-> reverse_counter]
    ELSE IF ~cfg.auto_accelerate
    THEN [motion_state |-> IF throttle = "forward" THEN "forward"
                           ELSE IF throttle = "backward" THEN "reverse"
                           ELSE "neutral",
          reverse_active |-> reverse_active,
          reverse_counter |-> reverse_counter]
    ELSE LET counted == IF pitch > ReversePitchThreshold
                        THEN Min2(ReverseFrames, reverse_counter + 1)
                        ELSE Max2(0, reverse_counter - 1)
             engages == ~reverse_active /\ counted >= ReverseFrames
             releases == ~engages /\ reverse_active
                            /\ pitch < ReversePitchRelease
             active == IF engages THEN TRUE
                       ELSE IF releases THEN FALSE ELSE reverse_active
         IN  [motion_state |-> IF active THEN "reverse" ELSE "forward",
              reverse_active |-> active,
              reverse_counter |-> IF releases THEN 0 ELSE counted]

\* determine_motion_state releasing at the engage threshold
DetermineMotionStateOneThreshold(pitch, throttle, mouth_brake) ==
    IF mouth_brake
    THEN [motion_state |-> "brake", reverse_active |-> FALSE,
          reverse_counter |-> 0]
    ELSE IF ~cfg.auto_accelerate
    THEN [motion_state |-> IF throttle = "forward" THEN "forward"
                           ELSE IF throttle = "backward" THEN "reverse"
                           ELSE "neutral",
          reverse_active |-> reverse_active,
          reverse_counter |-> reverse_counter]
    ELSE LET counted == IF pitch > ReversePitchThreshold
                        THEN Min2(ReverseFrames, reverse_counter + 1)
                        ELSE Max2(0, reverse_counter - 1)
             engages == ~reverse_active /\ counted >= ReverseFrames
             releases == ~engages /\ reverse_active
                            /\ pitch <= ReversePitchThreshold
             active == IF engages THEN TRUE
                       ELSE IF releases THEN FALSE ELSE reverse_active
         IN  [motion_state |-> IF active THEN "reverse" ELSE "forward",
              reverse_active |-> active,
              reverse_counter |-> IF releases THEN 0 ELSE counted]

\* determine_motion_state(pitch, throttle, gestures)
DetermineMotionState(pitch, throttle, mouth_brake) ==
    IF mouth_brake
    THEN [motion_state |-> "brake", reverse_active |-> FALSE,
          reverse_counter |-> 0]
    ELSE IF ~cfg.auto_accelerate
    THEN [motion_state |-> IF throttle = "forward" THEN "forward"
                           ELSE IF throttle = "backward" THEN "reverse"
                           ELSE "neutral",
          reverse_active |-> reverse_active,
          reverse_counter |-> reverse_counter]
    ELSE LET counted == IF pitch > ReversePitchThreshold
                        THEN Min2(ReverseFrames, reverse_counter + 1)
                        ELSE Max2(0, reverse_counter - 1)
             engages == ~reverse_active /\ counted >= ReverseFrames
             releases == ~engages /\ reverse_active
                            /\ pitch < ReversePitchRelease
             active == IF engages THEN TRUE
                       ELSE IF releases THEN FALSE ELSE reverse_active
         IN  [motion_state |-> IF active THEN "reverse" ELSE "forward",
              reverse_active |-> active,
              reverse_counter |-> IF releases THEN 0 ELSE counted]

\* the set built with the forward key kept while braking
ActiveKeysBrakeKeepsForward(direction, motion) ==
    (IF direction = "left" THEN {KeyLeft}
     ELSE IF direction = "right" THEN {KeyRight} ELSE {})
    \cup
    (IF motion \in {"forward", "brake"} THEN {KeyForward} ELSE {})
    \cup
    (IF motion \in {"reverse", "brake"} THEN {KeyBackward} ELSE {})

\* the active_keys set control_car builds
ActiveKeys(direction, motion) ==
    (IF direction = "left" THEN {KeyLeft}
     ELSE IF direction = "right" THEN {KeyRight} ELSE {})
    \cup
    (IF motion = "forward" THEN {KeyForward}
     ELSE IF motion \in {"reverse", "brake"} THEN {KeyBackward} ELSE {})

\* control_car(direction, motion_state)
ControlCar(t, direction, motion, ch) ==
    IF is_paused THEN ReleaseAllKeys(t, ch)
    ELSE UpdateKeyStates(t, ActiveKeys(direction, motion), ch)

ControlCarChoices(t, direction, motion) ==
    IF is_paused THEN ReleaseChoices(t)
    ELSE UpdateChoices(t, ActiveKeys(direction, motion))

\* the end of a loop step: an exception that left the handler goes through
\* the finally clause of run(), where cleanup() releases the keys again
Finish(t, f, nextpc, quit) ==
    \E ch \in (IF t.raised \/ quit THEN ReleaseChoices(Caught(t))
               ELSE {NoChoice}) :
        \E u \in {IF t.raised \/ quit THEN ReleaseAllKeys(Caught(t), ch)
                  ELSE t} :
            /\ last_active_keys' = u.keys
            /\ down' = u.down
            /\ failsafe_errors' = u.errors
            /\ pc' = IF t.raised \/ u.raised THEN "aborted"
                     ELSE IF quit THEN "stopped" ELSE nextpc
            /\ frame' = [f EXCEPT !.cleanup = t.raised \/ quit]

EnhancedInit ==
    /\ driver = "enhanced"
    /\ cfg \in EnhancedConfigs
    /\ pc = "frame"
    /\ calibrated = FALSE
    /\ is_paused = FALSE
    /\ last_active_keys = {}
    /\ motion_state = "neutral"
    /\ reverse_active = FALSE
    /\ reverse_counter = 0
    /\ down = {}
    /\ failsafe_errors = 0
    /\ lost_clock = -1
    /\ frame = NoFrame
    /\ key_op = NoOp
    /\ stop_requested = FALSE
    /\ DAIdle
    /\ CompIdle

\* camera_handler.get_frame() gave no frame: the iteration is skipped
EnhancedNoFrame ==
    /\ driver = "enhanced" /\ pc = "frame"
    /\ frame # [NoFrame EXCEPT !.kind = "no_frame"]
    /\ frame' = [NoFrame EXCEPT !.kind = "no_frame"]
    /\ UNCHANGED <<driver, cfg, pc, calibrated, is_paused, last_active_keys,
                   motion_state, reverse_active, reverse_counter, down,
                   failsafe_errors, lost_clock, key_op, stop_requested,
                   daVars, compVars>>

\* an iteration of the calibration phase
EnhancedCalibrationFrame(complete) ==
    /\ driver = "enhanced" /\ pc = "frame" /\ ~calibrated
    /\ calibrated' = complete
    /\ pc' = "keyboard"
    /\ frame' = [NoFrame EXCEPT !.kind = "calibration"]
    /\ UNCHANGED <<driver, cfg, is_paused, last_active_keys, motion_state,
                   reverse_active, reverse_counter, down, failsafe_errors,
                   lost_clock, key_op, stop_requested,
                   daVars, compVars>>

\* an iteration with pose_success, up to the call of control_car: the
\* filters, the assistant and the gesture detector give direction, pitch,
\* throttle and gestures, and determine_motion_state runs
EnhancedPoseFrame(direction, pitch, throttle, mouth_brake, toggle_cmd) ==
    /\ driver = "enhanced" /\ pc = "frame" /\ calibrated
    /\ IF cfg.auto_accelerate /\ ~mouth_brake THEN throttle = "neutral"
       ELSE pitch = 15
    /\ mouth_brake => throttle = "neutral"
    /\ LET m == DetermineMotionState(pitch, throttle, mouth_brake)
       IN  /\ motion_state' = m.motion_state
           /\ reverse_active' = m.reverse_active
           /\ reverse_counter' = m.reverse_counter
    /\ pc' = "control"
    /\ frame' = [NoFrame EXCEPT !.kind = "pose", !.direction = direction,
                                !.toggle = toggle_cmd]
    /\ lost_clock' = -1
    /\ UNCHANGED <<driver, cfg, calibrated, is_paused, last_active_keys,
                   down, failsafe_errors, key_op, stop_requested,
                   daVars, compVars>>

\* self.control_car(direction, motion_state)
EnhancedControlCar ==
    /\ driver = "enhanced" /\ pc = "control"
    /\ \E ch \in ControlCarChoices(Thread, frame.direction, motion_state) :
         \E t1 \in {ControlCar(Thread, frame.direction, motion_state, ch)} :
             /\ motion_state' = IF is_paused /\ ~t1.raised THEN "neutral"
                                ELSE motion_state
             /\ Finish(t1, frame, "gestures", FALSE)
    /\ UNCHANGED <<driver, cfg, calibrated, is_paused, reverse_active,
                   reverse_counter, lost_clock, key_op, stop_requested,
                   daVars, compVars>>

\* toggle_pause()
TogglePause(t, f, nextpc) ==
    \E ch \in (IF ~is_paused THEN ReleaseChoices(t) ELSE {NoChoice}) :
        \E t1 \in {IF ~is_paused THEN ReleaseAllKeys(t, ch) ELSE t} :
            /\ is_paused' = ~is_paused
            /\ motion_state' = IF ~is_paused /\ ~t1.raised THEN "neutral"
                               ELSE motion_state
            /\ Finish(t1, f, nextpc, FALSE)

\* the gesture commands of the iteration: 'toggle_pause' in active_commands
EnhancedGestureCommands ==
    /\ driver = "enhanced" /\ pc = "gestures"
    /\ IF frame.toggle
       THEN TogglePause(Thread, frame, "keyboard")
       ELSE /\ pc' = "keyboard"
            /\ UNCHANGED <<is_paused, motion_state, last_active_keys, down,
                           failsafe_errors, frame>>
    /\ UNCHANGED <<driver, cfg, calibrated, reverse_active, reverse_counter,
                   lost_clock, key_op, stop_requested,
                   daVars, compVars>>

\* an iteration without pose_success
EnhancedLostFrame ==
    /\ driver = "enhanced" /\ pc = "frame" /\ calibrated
    /\ \E ch \in (IF last_active_keys # {} THEN ReleaseChoices(Thread)
                  ELSE {NoChoice}) :
         \E t1 \in {IF last_active_keys # {} THEN ReleaseAllKeys(Thread, ch)
                    ELSE Thread} :
             /\ motion_state' = IF t1.raised THEN motion_state ELSE "neutral"
             /\ Finish(t1, [NoFrame EXCEPT !.kind = "lost",
                                           !.lost_elapsed = Max2(lost_clock, 0)],
                       "keyboard", FALSE)
    /\ lost_clock' = Max2(lost_clock, 0)
    /\ UNCHANGED <<driver, cfg, calibrated, is_paused, reverse_active,
                   reverse_counter, key_op, stop_requested,
                   daVars, compVars>>

\* _handle_keyboard: no key, or a key that leaves the driving state alone
EnhancedKeyOther ==
    /\ driver = "enhanced" /\ pc = "keyboard"
    /\ pc' = "frame"
    /\ frame' = [frame EXCEPT !.key = "other"]
    /\ UNCHANGED <<driver, cfg, calibrated, is_paused, last_active_keys,
                   motion_state, reverse_active, reverse_counter, down,
                   failsafe_errors, lost_clock, key_op, stop_requested,
                   daVars, compVars>>

\* _handle_keyboard, 'c': start_calibration()
EnhancedKeyCalibrate ==
    /\ driver = "enhanced" /\ pc = "keyboard"
    /\ calibrated' = FALSE
    /\ pc' = "frame"
    /\ frame' = [frame EXCEPT !.key = "c"]
    /\ UNCHANGED <<driver, cfg, is_paused, last_active_keys, motion_state,
                   reverse_active, reverse_counter, down, failsafe_errors,
                   lost_clock, key_op, stop_requested,
                   daVars, compVars>>

\* _handle_keyboard, 'p': toggle_pause()
EnhancedKeyPause ==
    /\ driver = "enhanced" /\ pc = "keyboard"
    /\ TogglePause(Thread, [frame EXCEPT !.key = "p"], "frame")
    /\ UNCHANGED <<driver, cfg, calibrated, reverse_active, reverse_counter,
                   lost_clock, key_op, stop_requested,
                   daVars, compVars>>

\* _handle_keyboard, 'q': the loop ends and cleanup() runs
EnhancedKeyQuit ==
    /\ driver = "enhanced" /\ pc = "keyboard"
    /\ Finish(Thread, [frame EXCEPT !.key = "q"], "frame", TRUE)
    /\ UNCHANGED <<driver, cfg, calibrated, is_paused, motion_state,
                   reverse_active, reverse_counter, lost_clock, key_op, stop_requested,
                   daVars, compVars>>

\* the signal stays lost while time passes
Tick ==
    /\ pc = "frame"
    /\ lost_clock >= 0 /\ lost_clock <= PauseDelay
    /\ lost_clock' = lost_clock + 1
    /\ UNCHANGED <<driver, cfg, pc, calibrated, is_paused, last_active_keys,
                   motion_state, reverse_active, reverse_counter, down,
                   failsafe_errors, frame, key_op, stop_requested,
                   daVars, compVars>>

EnhancedNext ==
    \/ EnhancedNoFrame
    \/ \E complete \in BOOLEAN : EnhancedCalibrationFrame(complete)
    \/ \E direction \in Directions, pitch \in Pitches, throttle \in Throttles,
          mouth_brake \in BOOLEAN, toggle_cmd \in BOOLEAN :
         EnhancedPoseFrame(direction, pitch, throttle, mouth_brake, toggle_cmd)
    \/ EnhancedControlCar
    \/ EnhancedGestureCommands
    \/ EnhancedLostFrame
    \/ EnhancedKeyOther
    \/ EnhancedKeyCalibrate
    \/ EnhancedKeyPause
    \/ EnhancedKeyQuit

-----------------------------------------------------------------------------
(* AccessibleHeadControlledDriving: the loop of run() *)

\* the safety settings explored for the accessible driver
AccessibleConfigs ==
    {Cfg(TRUE, FALSE, 20, FALSE, TRUE),
     Cfg(TRUE, FALSE, 20, FALSE, FALSE)}

\* the active_keys set control_car builds from the filtered offsets, given
\* the side of the thresholds each offset lies on
AccessibleActiveKeys(horizontal, vertical) ==
    (IF horizontal = "right" THEN {KeyRight}
     ELSE IF horizontal = "left" THEN {KeyLeft} ELSE {})
    \cup
    (IF vertical = "backward" THEN {KeyBackward}
     ELSE IF vertical = "forward" THEN {KeyForward} ELSE {})

AccessibleInit ==
    /\ driver = "accessible"
    /\ cfg \in AccessibleConfigs
    /\ pc = "frame"
    /\ calibrated = FALSE
    /\ is_paused = FALSE
    /\ last_active_keys = {}
    /\ motion_state = "neutral"
    /\ reverse_active = FALSE
    /\ reverse_counter = 0
    /\ down = {}
    /\ failsafe_errors = 0
    /\ lost_clock = -1
    /\ frame = NoFrame
    /\ key_op = NoOp
    /\ stop_requested = FALSE
    /\ DAIdle
    /\ CompIdle

\* camera_handler.get_frame() gave no frame: the iteration is skipped
AccessibleNoFrame ==
    /\ driver = "accessible" /\ pc = "frame"
    /\ frame # [NoFrame EXCEPT !.kind = "no_frame"]
    /\ frame' = [NoFrame EXCEPT !.kind = "no_frame"]
    /\ UNCHANGED <<driver, cfg, pc, calibrated, is_paused, last_active_keys,
                   motion_state, reverse_active, reverse_counter, down,
                   failsafe_errors, lost_clock, key_op, stop_requested,
                   daVars, compVars>>

\* a frame with a face during calibration: update_calibration
AccessibleCalibrationFrame(complete) ==
    /\ driver = "accessible" /\ pc = "frame" /\ ~calibrated
    /\ calibrated' = complete
    /\ lost_clock' = -1
    /\ pc' = "keyboard"
    /\ frame' = [NoFrame EXCEPT !.kind = "calibration"]
    /\ UNCHANGED <<driver, cfg, is_paused, last_active_keys, motion_state,
                   reverse_active, reverse_counter, down, failsafe_errors,
                   key_op, stop_requested, daVars, compVars>>

\* a frame with a face in normal operation: control_car(dx, dy)
AccessibleFaceFrame(horizontal, vertical) ==
    /\ driver = "accessible" /\ pc = "frame" /\ calibrated
    /\ LET active_keys == AccessibleActiveKeys(horizontal, vertical)
       IN  \E ch \in (IF is_paused THEN ReleaseChoices(Thread)
                      ELSE UpdateChoices(Thread, active_keys)) :
             \E t1 \in {IF is_paused THEN ReleaseAllKeys(Thread, ch)
                        ELSE UpdateKeyStates(Thread, active_keys, ch)} :
                 Finish(t1, [NoFrame EXCEPT !.kind = "pose",
                                            !.direction = horizontal],
                        "keyboard", FALSE)
    /\ lost_clock' = -1
    /\ UNCHANGED <<driver, cfg, calibrated, is_paused, motion_state,
                   reverse_active, reverse_counter, key_op, stop_requested,
                   daVars, compVars>>

\* the frame without a face calling toggle_pause() whether or not the
\* driver is paused already
AccessibleLostFrameToggles ==
    /\ driver = "accessible" /\ pc = "frame"
    /\ LET f == [NoFrame EXCEPT !.kind = "lost",
                                !.lost_elapsed = Max2(lost_clock, 0)]
       IN  IF /\ lost_clock >= 0
              /\ cfg.enable_auto_pause
              /\ lost_clock > PauseDelay
           THEN TogglePause(Thread, f, "keyboard")
           ELSE /\ pc' = "keyboard"
                /\ frame' = f
                /\ UNCHANGED <<is_paused, motion_state, last_active_keys,
                               down, failsafe_errors>>
    /\ lost_clock' = Max2(lost_clock, 0)
    /\ UNCHANGED <<driver, cfg, calibrated, reverse_active, reverse_counter,
                   key_op, stop_requested, daVars, compVars>>

\* a frame without a face: face_lost_time is set on the first one; on a
\* later one the auto-pause fires once pause_delay_seconds have gone by
AccessibleLostFrame ==
    /\ driver = "accessible" /\ pc = "frame"
    /\ LET f == [NoFrame EXCEPT !.kind = "lost",
                                !.lost_elapsed = Max2(lost_clock, 0)]
       IN  IF /\ lost_clock >= 0
              /\ cfg.enable_auto_pause
              /\ lost_clock > PauseDelay
              /\ ~is_paused
           THEN TogglePause(Thread, f, "keyboard")
           ELSE /\ pc' = "keyboard"
                /\ frame' = f
                /\ UNCHANGED <<is_paused, motion_state, last_active_keys,
                               down, failsafe_errors>>
    /\ lost_clock' = Max2(lost_clock, 0)
    /\ UNCHANGED <<driver, cfg, calibrated, reverse_active, reverse_counter,
                   key_op, stop_requested, daVars, compVars>>

\* the keyboard: no key, or 'm', '+', '-', which change settings only
AccessibleKeyOther ==
    /\ driver = "accessible" /\ pc = "keyboard"
    /\ pc' = "frame"
    /\ frame' = [frame EXCEPT !.key = "other"]
    /\ UNCHANGED <<driver, cfg, calibrated, is_paused, last_active_keys,
                   motion_state, reverse_active, reverse_counter, down,
                   failsafe_errors, lost_clock, key_op, stop_requested,
                   daVars, compVars>>

\* the keyboard, 'c': start_calibration()
AccessibleKeyCalibrate ==
    /\ driver = "accessible" /\ pc = "keyboard"
    /\ calibrated' = FALSE
    /\ pc' = "frame"
    /\ frame' = [frame EXCEPT !.key = "c"]
    /\ UNCHANGED <<driver, cfg, is_paused, last_active_keys, motion_state,
                   reverse_active, reverse_counter, down, failsafe_errors,
                   lost_clock, key_op, stop_requested, daVars, compVars>>

\* the keyboard, 'p': toggle_pause()
AccessibleKeyPause ==
    /\ driver = "accessible" /\ pc = "keyboard"
    /\ TogglePause(Thread, [frame EXCEPT !.key = "p"], "frame")
    /\ UNCHANGED <<driver, cfg, calibrated, reverse_active, reverse_counter,
                   lost_clock, key_op, stop_requested, daVars, compVars>>

\* the keyboard, 'q': break, then the finally clause
AccessibleKeyQuit ==
    /\ driver = "accessible" /\ pc = "keyboard"
    /\ Finish(Thread, [frame EXCEPT !.key = "q"], "frame", TRUE)
    /\ UNCHANGED <<driver, cfg, calibrated, is_paused, motion_state,
                   reverse_active, reverse_counter, lost_clock, key_op,
                   stop_requested, daVars, compVars>>

AccessibleNext ==
    \/ AccessibleNoFrame
    \/ \E complete \in BOOLEAN : AccessibleCalibrationFrame(complete)
    \/ \E horizontal \in Directions, vertical \in Throttles :
         AccessibleFaceFrame(horizontal, vertical)
    \/ AccessibleLostFrame
    \/ AccessibleKeyOther
    \/ AccessibleKeyCalibrate
    \/ AccessibleKeyPause
    \/ AccessibleKeyQuit

-----------------------------------------------------------------------------
(* SimpleHeadControlledDrive: run(), _calibrate(), _loop() *)

\* pyautogui.FAILSAFE = False in __init__: the settings play no part
SimpleConfigs == {Cfg(FALSE, FALSE, 20, FALSE, FALSE)}

\* keys_to_hold: the motion keys of _compute_motion_keys and the steering
\* keys of _compute_steering, each present or not in this frame (the pulse
\* generators leave a key out during their off phase)
SimpleKeysToHold(steering, motion) ==
    (IF steering = "right" THEN {KeyRight}
     ELSE IF steering = "left" THEN {KeyLeft} ELSE {})
    \cup
    (IF motion = "backward" THEN {KeyBackward}
     ELSE IF motion = "forward" THEN {KeyForward} ELSE {})

\* _cleanup(): self._update_keys(set())
SimpleCleanup(t, f) ==
    \E ch \in UpdateChoices(t, {}) :
        \E u \in {UpdateKeyStates(t, {}, ch)} :
            /\ last_active_keys' = u.keys
            /\ down' = u.down
            /\ failsafe_errors' = u.errors
            /\ pc' = "stopped"
            /\ frame' = [f EXCEPT !.cleanup = TRUE]

SimpleInit ==
    /\ driver = "simple"
    /\ cfg \in SimpleConfigs
    /\ pc = "run"
    /\ calibrated = FALSE
    /\ is_paused = FALSE
    /\ last_active_keys = {}
    /\ motion_state = "neutral"
    /\ reverse_active = FALSE
    /\ reverse_counter = 0
    /\ down = {}
    /\ failsafe_errors = 0
    /\ lost_clock = -1
    /\ frame = NoFrame
    /\ key_op = NoOp
    /\ stop_requested = FALSE
    /\ DAIdle
    /\ CompIdle

\* request_stop(), called from the thread of the user interface
SimpleRequestStop ==
    /\ driver = "simple" /\ pc \notin {"stopped"}
    /\ ~stop_requested
    /\ stop_requested' = TRUE
    /\ UNCHANGED <<driver, cfg, pc, calibrated, is_paused, last_active_keys,
                   motion_state, reverse_active, reverse_counter, down,
                   failsafe_errors, lost_clock, frame, key_op, daVars, compVars>>

\* run(): the test of stop_requested at the top of the while loop
SimpleRunTop ==
    /\ driver = "simple" /\ pc = "run"
    /\ IF stop_requested
       THEN SimpleCleanup(Thread, frame)
       ELSE /\ pc' = "calibrate"
            /\ UNCHANGED <<last_active_keys, down, failsafe_errors, frame>>
    /\ UNCHANGED <<driver, cfg, calibrated, is_paused, motion_state,
                   reverse_active, reverse_counter, lost_clock, key_op,
                   stop_requested, daVars, compVars>>

\* _calibrate(): its first statement, self.stop_requested = False
SimpleCalibrateStart ==
    /\ driver = "simple" /\ pc = "calibrate"
    /\ stop_requested' = FALSE
    /\ calibrated' = FALSE
    /\ pc' = "calibrating"
    /\ UNCHANGED <<driver, cfg, is_paused, last_active_keys, motion_state,
                   reverse_active, reverse_counter, down, failsafe_errors,
                   lost_clock, frame, key_op, daVars, compVars>>

\* _calibrate(): the sampling loop and its result
SimpleCalibrateEnd(face_seen) ==
    /\ driver = "simple" /\ pc = "calibrating"
    /\ calibrated' = (~stop_requested /\ face_seen)
    /\ pc' = IF ~stop_requested /\ face_seen THEN "entering"
             ELSE "calib_failed"
    /\ UNCHANGED <<driver, cfg, is_paused, last_active_keys, motion_state,
                   reverse_active, reverse_counter, down, failsafe_errors,
                   lost_clock, frame, key_op, stop_requested, daVars, compVars>>

\* _handle_calibration_failure(): 'q' ends run(), anything else retries
SimpleCalibrationFailure(quit) ==
    /\ driver = "simple" /\ pc = "calib_failed"
    /\ IF quit
       THEN SimpleCleanup(Thread, frame)
       ELSE /\ pc' = "run"
            /\ UNCHANGED <<last_active_keys, down, failsafe_errors, frame>>
    /\ UNCHANGED <<driver, cfg, calibrated, is_paused, motion_state,
                   reverse_active, reverse_counter, lost_clock, key_op,
                   stop_requested, daVars, compVars>>

\* run(): the test of stop_requested between _calibrate() and _loop()
SimpleEnterLoop ==
    /\ driver = "simple" /\ pc = "entering"
    /\ IF stop_requested
       THEN SimpleCleanup(Thread, frame)
       ELSE /\ pc' = "loop"
            /\ UNCHANGED <<last_active_keys, down, failsafe_errors, frame>>
    /\ UNCHANGED <<driver, cfg, calibrated, is_paused, motion_state,
                   reverse_active, reverse_counter, lost_clock, key_op,
                   stop_requested, daVars, compVars>>

\* _loop(): the iteration that finds stop_requested set
SimpleLoopStop ==
    /\ driver = "simple" /\ pc = "loop"
    /\ stop_requested
    /\ SimpleCleanup(Thread, [frame EXCEPT !.key = "stop"])
    /\ UNCHANGED <<driver, cfg, calibrated, is_paused, motion_state,
                   reverse_active, reverse_counter, lost_clock, key_op,
                   stop_requested, daVars, compVars>>

\* _loop(): one iteration, with or without a face, up to the key read
SimpleLoopFrame(success, steering, motion, quit) ==
    /\ driver = "simple" /\ pc = "loop"
    /\ ~stop_requested
    /\ ~success => (steering = "center" /\ motion = "neutral")
    /\ LET target_keys == IF success THEN SimpleKeysToHold(steering, motion)
                          ELSE {}
           f == [NoFrame EXCEPT !.kind = IF success THEN "pose" ELSE "lost",
                                !.direction = steering,
                                !.key = IF quit THEN "q" ELSE "other"]
       IN  \E ch \in UpdateChoices(Thread, target_keys) :
             \E t1 \in {UpdateKeyStates(Thread, target_keys, ch)} :
                 IF quit THEN SimpleCleanup(t1, f)
                 ELSE /\ last_active_keys' = t1.keys
                      /\ down' = t1.down
                      /\ failsafe_errors' = t1.errors
                      /\ pc' = "loop"
                      /\ frame' = f
    /\ UNCHANGED <<driver, cfg, calibrated, is_paused, motion_state,
                   reverse_active, reverse_counter, lost_clock, key_op,
                   stop_requested, daVars, compVars>>

SimpleNext ==
    \/ SimpleRequestStop
    \/ SimpleRunTop
    \/ SimpleCalibrateStart
    \/ \E face_seen \in BOOLEAN : SimpleCalibrateEnd(face_seen)
    \/ \E quit \in BOOLEAN : SimpleCalibrationFailure(quit)
    \/ SimpleEnterLoop
    \/ SimpleLoopStop
    \/ \E success \in BOOLEAN, steering \in Directions, motion \in Throttles,
          quit \in BOOLEAN :
         SimpleLoopFrame(success, steering, motion, quit)

-----------------------------------------------------------------------------
(* The three driver loops *)

Init ==
    \/ EnhancedInit
    \/ AccessibleInit
    \/ SimpleInit

Next ==
    \/ EnhancedNext
    \/ AccessibleNext
    \/ SimpleNext
    \/ Tick

Spec == Init /\ [][Next]_vars

-----------------------------------------------------------------------------
(* The key operations of the driver objects, called one after another *)

MotionStates == {"forward", "reverse", "brake", "neutral"}

\* the sets control_car can ask for
DesiredSets ==
    {ActiveKeys(direction, motion) :
        direction \in Directions, motion \in MotionStates}

KeysInit ==
    /\ driver \in {"enhanced", "accessible", "simple"}
    /\ cfg \in (CASE driver = "enhanced" -> EnhancedConfigs
                  [] driver = "accessible" -> AccessibleConfigs
                  [] OTHER -> SimpleConfigs)
    /\ pc = "keys"
    /\ calibrated = FALSE
    /\ is_paused = FALSE
    /\ last_active_keys = {}
    /\ motion_state = "neutral"
    /\ reverse_active = FALSE
    /\ reverse_counter = 0
    /\ down = {}
    /\ failsafe_errors = 0
    /\ lost_clock = -1
    /\ frame = NoFrame
    /\ key_op = NoOp
    /\ stop_requested = FALSE
    /\ DAIdle
    /\ CompIdle

\* update_key_states(active_keys) / _update_keys(target_keys)
CallUpdateKeyStates(active_keys) ==
    /\ pc = "keys"
    /\ \E ch \in UpdateChoices(Thread, active_keys) :
         \E t1 \in {UpdateKeyStates(Thread, active_keys, ch)} :
             /\ last_active_keys' = t1.keys
             /\ down' = t1.down
             /\ failsafe_errors' = t1.errors
             /\ key_op' = t1.ops[1]
             /\ pc' = IF t1.raised THEN "keys_raised" ELSE "keys"
    /\ UNCHANGED <<driver, cfg, calibrated, is_paused, motion_state,
                   reverse_active, reverse_counter, lost_clock, frame,
                   stop_requested, daVars, compVars>>

\* release_all_keys(); after an operation that raised it is the call made
\* by the finally clause of run()
CallReleaseAllKeys ==
    /\ pc \in {"keys", "keys_raised"}
    /\ driver # "simple"
    /\ \E ch \in ReleaseChoices(Thread) :
         \E t1 \in {ReleaseAllKeys(Thread, ch)} :
             /\ last_active_keys' = t1.keys
             /\ down' = t1.down
             /\ failsafe_errors' = t1.errors
             /\ key_op' = t1.ops[1]
             /\ pc' = IF pc = "keys_raised" \/ t1.raised THEN "keys_done"
                      ELSE "keys"
    /\ UNCHANGED <<driver, cfg, calibrated, is_paused, motion_state,
                   reverse_active, reverse_counter, lost_clock, frame,
                   stop_requested, daVars, compVars>>

KeysNext ==
    \/ \E active_keys \in DesiredSets : CallUpdateKeyStates(active_keys)
    \/ CallReleaseAllKeys

SpecKeys == KeysInit /\ [][KeysNext]_vars

-----------------------------------------------------------------------------
(* Properties of the input stabilizer (SpecDA) *)

\* C1: at levels 1-3 with threshold T, once T consecutive process_steering
\* calls have carried the same raw candidate c, the value returned by the
\* last of them (and latched) is c, whatever came before the run.
C1_RunOfThresholdFlips ==
    (/\ assistance_level \in 1 .. 3
     /\ direction_change_threshold >= 2
     /\ steer_run.len >= direction_change_threshold)
    => (steering_result = steer_run.raw /\ stable_direction = steer_run.raw)

\* C2: at levels 1-3 with threshold T >= 2, from a fresh or reset
\* stabilizer, while the raw candidate alternates between two values on
\* every call the latched and returned value is 'center' after every call.
C2_AlternationNeverFlips ==
    (/\ assistance_level \in 1 .. 3
     /\ steer_alt.ok
     /\ steer_alt.n >= 1)
    => (stable_direction = "center" /\ steering_result = "center")

C2_Witness ==
    /\ assistance_level \in 1 .. 3
    /\ direction_change_threshold = 2
    /\ steer_alt.ok
    /\ steer_alt.n >= 4
    /\ Len(steer_alt.last) = 2

\* the raw candidates the scenario is said to produce
ScenarioRaw ==
    <<"right", "center", "right", "center", "right", "right", "right", "right">>

\* C3: a stabilizer constructed at level 2 and fed the yaws
\* [20,-15,18,-12,20,22,20,19] at sensitivity 15 sees the raw candidates
\* right, center, right, center, right x4 and ends latched on 'right'.
C3_ScenarioEndsRight ==
    /\ scen_idx >= 1 =>
          (direction_change_threshold = 3 /\ steer_run.raw = ScenarioRaw[scen_idx])
    /\ scen_idx = Len(ScenarioYaws) =>
          (stable_direction = "right" /\ steering_result = "right")

C3_Witness ==
    /\ scen_idx = Len(ScenarioYaws)
    /\ assistance_level = 2
    /\ direction_counter["right"] = 4

\* C11: whenever assistance_level is 1, 2 or 3 the debounce threshold is
\* assistance_level + 1, after construction with any level and after any
\* sequence of set_assistance_level calls.
C11_ThresholdFollowsLevel ==
    assistance_level \in 1 .. 3 =>
        direction_change_threshold = assistance_level + 1

-----------------------------------------------------------------------------
(* Properties of the driver loops (Spec) *)

\* C4: when perception has failed on every frame for longer than the pause
\* delay, then at the end of the handling of a failure frame the driver is
\* paused and its command set is empty (in the accessible driver with the
\* auto-pause enabled, and in the enhanced driver).
C4_LossBeyondDelayPauses ==
    (/\ driver \in {"enhanced", "accessible"}
     /\ driver = "accessible" => cfg.enable_auto_pause
     /\ pc = "keyboard"
     /\ frame.kind = "lost"
     /\ frame.lost_elapsed > PauseDelay)
    => (is_paused /\ last_active_keys = {})

\* C5: once the loop of the simple driver, or of the enhanced driver with
\* auto_recover enabled, has stopped (quit key, stop flag, or an exception
\* that left the loop) and the final release has run, no key is left held
\* down.
C5_StopReleasesEveryKey ==
    (/\ driver \in {"enhanced", "simple"}
     /\ driver = "enhanced" => cfg.auto_recover
     /\ pc \in {"stopped", "aborted"})
    => down = {}

C10_LostFrameEmptiesCommands ==
    (/\ frame.kind = "lost"
     /\ driver = "accessible" => cfg.enable_auto_pause
     /\ pc \in {"keyboard", "frame", "loop"})
    => last_active_keys = {}

-----------------------------------------------------------------------------
(* Properties of the key operations (SpecKeys) *)

-----------------------------------------------------------------------------
(* Properties of the two channels at level 0 (SpecAssist) *)

\* C12: at assistance level 0 a process_steering or process_throttle call
\* returns the threshold comparison of the angle it was given (left below
\* -sensitivity, right above sensitivity, else center; forward below
\* forward_threshold, backward above backward_threshold, else neutral),
\* whatever the counters and latched values hold, and leaves the counters
\* and the latched values as they were.
C12_DirectAtLevelZero ==
    [][(assistance_level = 0 /\ direct_call' # NoCall) =>
          /\ direction_counter' = direction_counter
          /\ stable_direction' = stable_direction
          /\ throttle_counter' = throttle_counter
          /\ stable_throttle' = stable_throttle
          /\ direct_call'.kind = "steering" =>
                steering_result' =
                    IF direct_call'.angle < direct_call'.lo THEN "left"
                    ELSE IF direct_call'.angle > direct_call'.hi THEN "right"
                    ELSE "center"
          /\ direct_call'.kind = "throttle" =>
                throttle_result' =
                    IF direct_call'.angle < direct_call'.lo THEN "forward"
                    ELSE IF direct_call'.angle > direct_call'.hi
                         THEN "backward"
                    ELSE "neutral"]_vars

\* a direct throttle call answering forward while backward is latched and
\* counted and a steering direction is latched too
C12_Witness ==
    /\ assistance_level = 0
    /\ direct_call.kind = "throttle"
    /\ throttle_result = "forward"
    /\ stable_throttle = "backward"
    /\ throttle_counter["backward"] > 0
    /\ stable_direction # "center"

-----------------------------------------------------------------------------
(* FatigueMonitor (fatigue_monitor.py) *)

\* self.max_continuous_time, in seconds
MaxContinuousTime == 900

\* maxlen of input_precision_history and of correction_frequency_history
PrecisionCapacity == 100

CorrectionCapacity == 50

\* samples compared at each end of the two histories
PrecisionWindow == 20

CorrectionWindow == 10

\* updates, paused updates and breaks explored in one session
MaxSamples == 22

MaxPauses == 1

MaxBreaks == 1

QLcm(p, q) == (p[2] \div GCD(p[2], q[2])) * q[2]

QAdd(p, q) ==
    LET l == QLcm(p, q)
    IN  Q(p[1] * (l \div p[2]) + q[1] * (l \div q[2]), l)

QLeq(p, q) ==
    LET l == QLcm(p, q)
    IN  p[1] * (l \div p[2]) <= q[1] * (l \div q[2])

QLess(p, q) == ~QLeq(q, p)

\* p * n / d
QScale(p, n, d) == Q(p[1] * n, p[2] * d)

\* max(0, min(1.0, n / d)) for d > 0
Clamp01(n, d) ==
    IF n <= 0 THEN Q(0, 1) ELSE IF n >= d THEN Q(1, 1) ELSE Q(n, d)

RECURSIVE SumSeq(_)
SumSeq(s) == IF s = <<>> THEN 0 ELSE Head(s) + SumSeq(Tail(s))

FirstN(s, n) == SubSeq(s, 1, n)

LastN(s, n) == SubSeq(s, Len(s) - n + 1, Len(s))

\* an append that never evicts
DequeAppendUnbounded(s, x, capacity) ==
    Append(s, x)

\* deque(maxlen=capacity).append(x); a deque of capacity 0 stays empty
DequeAppend(s, x, capacity) ==
    IF capacity = 0 THEN s
    ELSE IF Len(s) < capacity THEN Append(s, x) ELSE Append(Tail(s), x)

\* the sub-scores _calculate_fatigue_score averages
SubScores(f) ==
    {"time"}
      \cup (IF /\ Len(f.input_precision_history) > PrecisionWindow
               /\ SumSeq(FirstN(f.input_precision_history,
                                PrecisionWindow)) > 0
            THEN {"precision"} ELSE {})
      \cup (IF /\ Len(f.correction_frequency_history) > CorrectionWindow
               /\ SumSeq(FirstN(f.correction_frequency_history,
                                CorrectionWindow)) > 0
            THEN {"corrections"} ELSE {})

TimeScoreRemaining(f) ==
    QScale(Clamp01(MaxContinuousTime - f.total_active_time,
                   MaxContinuousTime), 4, 10)

\* min(1.0, time_active / max_continuous_time), weight 0.4
TimeScore(f) ==
    QScale(Clamp01(f.total_active_time, MaxContinuousTime), 4, 10)

\* (recent - early) / early over the two windows, clamped, weight 0.3
PrecisionScore(f) ==
    LET recent == SumSeq(LastN(f.input_precision_history, PrecisionWindow))
        early == SumSeq(FirstN(f.input_precision_history, PrecisionWindow))
    IN  QScale(Clamp01(recent - early, early), 3, 10)

\* (recent - early) / max(early, 1) / 2 over the two windows, clamped,
\* weight 0.3
CorrectionScore(f) ==
    LET recent == SumSeq(LastN(f.correction_frequency_history,
                               CorrectionWindow))
        early == SumSeq(FirstN(f.correction_frequency_history,
                               CorrectionWindow))
        floor == IF early > CorrectionWindow THEN early
                 ELSE CorrectionWindow
    IN  QScale(Clamp01(recent - early, 2 * floor), 3, 10)

\* the weighted sub-scores added up instead of averaged
FatigueScoreSummed(f) ==
    LET used == SubScores(f)
    IN  QAdd(TimeScore(f),
             QAdd(IF "precision" \in used THEN PrecisionScore(f)
                  ELSE Q(0, 1),
                  IF "corrections" \in used THEN CorrectionScore(f)
                  ELSE Q(0, 1)))

\* _calculate_fatigue_score: np.mean(scores)
FatigueScore(f) ==
    LET used == SubScores(f)
        total == QAdd(TimeScore(f),
                   QAdd(IF "precision" \in used THEN PrecisionScore(f)
                        ELSE Q(0, 1),
                        IF "corrections" \in used THEN CorrectionScore(f)
                        ELSE Q(0, 1)))
    IN  QScale(total, 1, Cardinality(used))

\* _determine_fatigue_level
FatigueLevel(score) ==
    IF QLess(score, Q(1, 4)) THEN "None"
    ELSE IF QLess(score, Q(1, 2)) THEN "Low"
    ELSE IF QLess(score, Q(3, 4)) THEN "Medium"
    ELSE "High"

KeepAll(score) == score

\* self.fatigue_score *= 0.5
Halve(score) == QScale(score, 1, 2)

\* the inputs the session hands to the next update
NextVariance == fatigue.session.v0 + fatigue.updates * fatigue.session.dv

NextCorrection == fatigue.session.c0 + fatigue.updates * fatigue.session.dc

LastOr(s, default) == IF s = <<>> THEN default ELSE s[Len(s)]

FatigueOthers == <<daVars, drvVars, predictor, filter, tremor, ui>>

FatigueInit ==
    /\ DAIdle
    /\ NoDriver
    /\ fatigue \in {FreshFatigue(session) : session \in Sessions}
    /\ predictor = FreshPredictor(2, 10, 0, 0)
    /\ filter = FreshFilter(DefaultFilterConfig)
    /\ tremor = FreshTremor("ramp", 0)
    /\ ui = FreshUI("queue_event")

\* update(is_paused, input_variance, correction_count), called dt seconds
\* after the previous call
FatigueUpdate(paused, input_variance, correction_count, dt) ==
    /\ fatigue.updates < MaxSamples
    /\ paused => fatigue.pauses < MaxPauses
    /\ \E f \in {[fatigue EXCEPT
                    !.now = @ + dt,
                    !.total_active_time =
                        IF paused THEN @
                        ELSE @ + (fatigue.now + dt - fatigue.last_update_time),
                    !.last_update_time = fatigue.now + dt,
                    !.input_precision_history =
                        DequeAppend(@, input_variance, PrecisionCapacity),
                    !.correction_frequency_history =
                        DequeAppend(@, correction_count, CorrectionCapacity)]} :
         \E score \in {FatigueScore(f)} :
           fatigue' = [f EXCEPT
                        !.fatigue_score = score,
                        !.fatigue_level = FatigueLevel(score),
                        !.op = "update",
                        !.prev_score = fatigue.fatigue_score,
                        !.used = SubScores(f),
                        !.prev_used = fatigue.used,
                        !.strict =
                            /\ @
                            /\ ~paused
                            /\ dt > 0
                            /\ input_variance >
                                 LastOr(fatigue.input_precision_history,
                                        input_variance - 1)
                            /\ correction_count >
                                 LastOr(fatigue.correction_frequency_history,
                                        correction_count - 1),
                        !.updates = @ + 1,
                        !.pauses = IF paused THEN @ + 1 ELSE @]
    /\ UNCHANGED FatigueOthers

\* mark_break_taken()
FatigueMarkBreakTaken ==
    /\ fatigue.breaks < MaxBreaks
    /\ fatigue' = [fatigue EXCEPT
                     !.last_break_time = fatigue.now,
                     !.fatigue_score = Halve(@),
                     !.op = "break",
                     !.prev_score = fatigue.fatigue_score,
                     !.strict = FALSE,
                     !.breaks = @ + 1]
    /\ UNCHANGED FatigueOthers

FatigueNext ==
    \/ \E paused \in BOOLEAN :
         FatigueUpdate(paused, NextVariance, NextCorrection,
                       fatigue.session.dt)
    \/ FatigueMarkBreakTaken

SpecFatigue == FatigueInit /\ [][FatigueNext]_vars

\* C13: over updates that are never paused, with strictly increasing
\* input_variance and correction_count, advancing time and no break taken,
\* fatigue_score never decreases from one update to the next.
C13_NonDecreasing ==
    (fatigue.op = "update" /\ fatigue.strict) =>
        QLeq(fatigue.prev_score, fatigue.fatigue_score)

\* C13 with the sub-scores held fixed: under the same conditions the score
\* never decreases between two updates that average the same sub-scores,
\* while neither history has dropped a sample.
C13_NonDecreasingSameSubScores ==
    (/\ fatigue.op = "update"
     /\ fatigue.strict
     /\ fatigue.used = fatigue.prev_used
     /\ fatigue.updates <= CorrectionCapacity) =>
        QLeq(fatigue.prev_score, fatigue.fatigue_score)

\* a strict session whose score rose between two updates that both average
\* all three sub-scores
C13_Witness ==
    /\ fatigue.op = "update"
    /\ fatigue.strict
    /\ fatigue.used = {"time", "precision", "corrections"}
    /\ fatigue.prev_used = fatigue.used
    /\ QLess(fatigue.prev_score, fatigue.fatigue_score)

\* C14: mark_break_taken() leaves fatigue_score at most half of what it was
\* before the call and sets the last-break time to the current time.
C14_BreakHalves ==
    fatigue.op = "break" =>
        /\ QLeq(QScale(fatigue.fatigue_score, 2, 1), fatigue.prev_score)
        /\ fatigue.last_break_time = fatigue.now

\* a break taken on a positive score, some time after construction
C14_Witness ==
    /\ fatigue.op = "break"
    /\ QLess(Q(0, 1), fatigue.prev_score)
    /\ fatigue.last_break_time > 0

-----------------------------------------------------------------------------
(* MotionPredictor (motion_predictor.py) *)

\* updates fed to one predictor (fed keeps those since construction or
\* reset()), and how many of them may leave the ramp
MaxUpdates == 6

MaxJumps == 1

PredictionSteps == {1, 2, 3}

HistoryLengths == {2, 3, 4}

Slopes == {-2, 0, 1, 3}

Levels == {50}

\* what an update may add to the ramp's x and y
JumpsX == {0, 1}

DriftsY == {0, 2}

RECURSIVE SumOf(_, _)
SumOf(s, c) == IF s = <<>> THEN 0 ELSE Head(s)[c] + SumOf(Tail(s), c)

TotalOf(s, c) == Q(SumOf(s, c), 1)

\* np.mean([v[c] for v in s])
MeanOf(s, c) == Q(SumOf(s, c), Len(s))

\* one coordinate of _predict
PredictCoordinate(p, c) ==
    LET x == p.position_history[Len(p.position_history)][c]
        t == p.prediction_steps
        avg_v == MeanOf(p.velocity_history, c)
        avg_a == MeanOf(p.acceleration_history, c)
    IN  IF p.velocity_history = <<>> THEN Q(x, 1)
        ELSE IF p.acceleration_history = <<>>
             THEN QAdd(Q(x, 1), QScale(avg_v, t, 1))
        ELSE QAdd(Q(x, 1),
                  QAdd(QScale(avg_v, t, 1), QScale(avg_a, t * t, 2)))

\* _predict()
Predict(p) ==
    IF p.position_history = <<>> THEN <<Q(0, 1), Q(0, 1)>>
    ELSE <<PredictCoordinate(p, 1), PredictCoordinate(p, 2)>>

Difference(a, b) == <<a[1] - b[1], a[2] - b[2]>>

\* the histories after update(x, y)
Ingest(p, x, y) ==
    LET positions == DequeAppend(p.position_history, <<x, y>>,
                                 p.history_length)
        n == Len(positions)
        velocities ==
            IF n < 2 THEN p.velocity_history
            ELSE DequeAppend(p.velocity_history,
                             Difference(positions[n], positions[n - 1]),
                             p.history_length)
        m == Len(velocities)
        accelerations ==
            IF n < 2 \/ m < 2 THEN p.acceleration_history
            ELSE DequeAppend(p.acceleration_history,
                             Difference(velocities[m], velocities[m - 1]),
                             p.history_length - 1)
    IN  [p EXCEPT !.position_history = positions,
                  !.velocity_history = velocities,
                  !.acceleration_history = accelerations]

UpdateResultStale(p) ==
    IF Len(p.position_history) < 2 THEN p.last_prediction
    ELSE Predict(p)

\* what update returns once the sample is in the histories
UpdateResult(p) ==
    IF Len(p.position_history) < 2
    THEN LET pos == p.position_history[Len(p.position_history)]
         IN  <<Q(pos[1], 1), Q(pos[2], 1)>>
    ELSE Predict(p)

\* the call just made, as the next call will remember it
Remembered(p) ==
    [op |-> p.op, result |-> p.result,
     position_history |-> p.position_history,
     velocity_history |-> p.velocity_history,
     acceleration_history |-> p.acceleration_history]

\* the next sample of the ramp
RampX == predictor.updates * predictor.slope

RampY == predictor.level

PredictorOthers == <<daVars, drvVars, fatigue, filter, tremor, ui>>

PredictorInit ==
    /\ DAIdle
    /\ NoDriver
    /\ fatigue = FreshFatigue([v0 |-> 1, dv |-> 1, c0 |-> 0, dc |-> 0,
                               dt |-> 30])
    /\ predictor \in {FreshPredictor(s, h, k, y) :
                        s \in PredictionSteps, h \in HistoryLengths,
                        k \in Slopes, y \in Levels}
    /\ filter = FreshFilter(DefaultFilterConfig)
    /\ tremor = FreshTremor("ramp", 0)
    /\ ui = FreshUI("queue_event")

\* update(x, y)
PredictorUpdate(x, y) ==
    /\ predictor.updates < MaxUpdates
    /\ (x # RampX \/ y # RampY) => predictor.jumps < MaxJumps
    /\ \E p \in {Ingest(predictor, x, y)} :
         \E r \in {UpdateResult(p)} :
           predictor' = [p EXCEPT
                           !.last_prediction = r,
                           !.op = "update",
                           !.result = r,
                           !.updates = @ + 1,
                           !.fed = Append(@, <<x, y>>),
                           !.on_ramp = @ /\ x = RampX /\ y = RampY,
                           !.jumps = IF x = RampX /\ y = RampY THEN @
                                     ELSE @ + 1,
                           !.prev = Remembered(predictor)]
    /\ UNCHANGED PredictorOthers

\* predict()
PredictorPredict ==
    /\ \E r \in {IF predictor.position_history = <<>>
                 THEN predictor.last_prediction
                 ELSE Predict(predictor)} :
         predictor' = [predictor EXCEPT
                         !.last_prediction = r,
                         !.op = "predict",
                         !.result = r,
                         !.prev = Remembered(predictor)]
    /\ UNCHANGED PredictorOthers

\* reset()
PredictorReset ==
    /\ predictor.op # "reset"
    /\ predictor' = [predictor EXCEPT
                       !.position_history = <<>>,
                       !.velocity_history = <<>>,
                       !.acceleration_history = <<>>,
                       !.last_prediction = <<Q(0, 1), Q(0, 1)>>,
                       !.op = "reset",
                       !.on_ramp = FALSE,
                       !.fed = <<>>,
                       !.prev = Remembered(predictor)]
    /\ UNCHANGED PredictorOthers

PredictorNext ==
    \/ \E jump \in JumpsX, drift \in DriftsY :
         PredictorUpdate(RampX + jump, RampY + drift)
    \/ PredictorPredict
    \/ PredictorReset

SpecPredictor == PredictorInit /\ [][PredictorNext]_vars

\* C15: a fresh predictor with prediction_steps s fed x = i * k, y constant,
\* returns the input itself on its first update and (i + s) * k, y on every
\* update i >= 1, for every slope k and history length of at least 2.
C15_RampIsExtrapolated ==
    (predictor.op = "update" /\ predictor.on_ramp) =>
        LET i == predictor.updates - 1
        IN  predictor.result =
              IF i = 0 THEN <<Q(0, 1), Q(predictor.level, 1)>>
              ELSE <<Q((i + predictor.prediction_steps) * predictor.slope, 1),
                     Q(predictor.level, 1)>>

\* a ramp fed for longer than the histories hold, with a negative slope
C15_Witness ==
    /\ predictor.op = "update"
    /\ predictor.on_ramp
    /\ predictor.slope < 0
    /\ predictor.updates > predictor.history_length + 1
    /\ predictor.acceleration_history # <<>>

\* C16: predict() takes in no sample and leaves the three histories as they
\* were; it returns the pair the preceding update() or predict() returned.
C16_PredictRepeats ==
    predictor.op = "predict" =>
        /\ predictor.position_history = predictor.prev.position_history
        /\ predictor.velocity_history = predictor.prev.velocity_history
        /\ predictor.acceleration_history
             = predictor.prev.acceleration_history
        /\ predictor.prev.op \in {"update", "predict"} =>
             predictor.result = predictor.prev.result

\* predict() called after an update that left the ramp, with accelerations
\* in the history and a prediction away from the last sample
C16_Witness ==
    /\ predictor.op = "predict"
    /\ predictor.prev.op = "update"
    /\ ~predictor.on_ramp
    /\ predictor.acceleration_history # <<>>
    /\ predictor.result[1] #
         Q(predictor.position_history[Len(predictor.position_history)][1], 1)

-----------------------------------------------------------------------------
(* CompositeFilter and its stages (advanced_filters.py) *)

\* filter calls and resets made on one cascade
MaxFilterCalls == 7

MaxResets == 1

\* maxlen of innovation_history and of output_history
InnovationCapacity == 10

OutputCapacity == 30

\* samples _adapt_noise_covariance waits for
AdaptAfter == 5

\* the bounds R is kept within
RMin == Scale \div 100

RMax == 10 * Scale

\* product and quotient of two scaled values, rounded
Mul(a, b) == (a * b + Scale \div 2) \div Scale

Div(a, b) == (a * Scale + b \div 2) \div b

Abs(a) == IF a < 0 THEN -a ELSE a

RECURSIVE SumSquares(_, _)
SumSquares(s, mean) ==
    IF s = <<>> THEN 0
    ELSE (Head(s) - mean) * (Head(s) - mean) + SumSquares(Tail(s), mean)

\* np.var(s) of scaled samples, scaled
Variance(s) ==
    LET mean == SumSeq(s) \div Len(s)
    IN  (SumSquares(s, mean) \div Len(s)) \div Scale

\* DoubleExponentialSmoothing.update: the filter after the call
DESUpdate(des, observation) ==
    IF ~des.initialized
    THEN [des EXCEPT !.level = observation, !.trend = 0,
                     !.initialized = TRUE]
    ELSE LET level == Mul(des.alpha, observation)
                        + Mul(Scale - des.alpha, des.level + des.trend)
         IN  [des EXCEPT
                !.level = level,
                !.trend = Mul(des.beta, level - des.level)
                            + Mul(Scale - des.beta, des.trend)]

\* DoubleExponentialSmoothing.reset
DESReset(des) ==
    [des EXCEPT !.level = 0, !.trend = 0, !.initialized = FALSE]

\* _adapt_noise_covariance: the new R
Adapted(kf) ==
    IF Len(kf.innovation_history) < AdaptAfter THEN kf.r
    ELSE Max2(RMin,
              Min2(Mul(kf.adapt_rate, kf.r)
                     + Mul(Scale - kf.adapt_rate,
                           Variance(kf.innovation_history)),
                   RMax))

\* AdaptiveKalmanFilter.update: the filter after the call
KalmanUpdate(kf, measurement) ==
    LET p_pred == kf.p + kf.q
        k == Div(p_pred, p_pred + kf.r)
        innovation == measurement - kf.x
        after == [kf EXCEPT
                    !.x = kf.x + Mul(k, innovation),
                    !.p = Mul(Scale - k, p_pred),
                    !.innovation_history =
                        DequeAppend(@, Abs(innovation), InnovationCapacity)]
    IN  [after EXCEPT !.r = Adapted(after)]

\* AdaptiveKalmanFilter.reset
KalmanReset(kf) ==
    [kf EXCEPT !.x = 0, !.p = Scale, !.innovation_history = <<>>]

\* LowPassFilter.update: the filter after the call
LowPassUpdate(lp, measurement) ==
    IF ~lp.has_value
    THEN [lp EXCEPT !.value = measurement, !.has_value = TRUE]
    ELSE [lp EXCEPT !.value = Mul(lp.alpha, measurement)
                               + Mul(Scale - lp.alpha, lp.value)]

\* LowPassFilter.reset
LowPassReset(lp) == [lp EXCEPT !.value = 0, !.has_value = FALSE]

\* one axis of CompositeFilter.filter: the three stages after the call and
\* the filtered value
FilterAxis(config, des, kf, lp, value) ==
    LET des1 == IF config.use_des THEN DESUpdate(des, value) ELSE des
        v1 == IF config.use_des THEN des1.level ELSE value
        kf1 == IF config.use_kalman THEN KalmanUpdate(kf, v1) ELSE kf
        v2 == IF config.use_kalman THEN kf1.x ELSE v1
        lp1 == IF config.use_lowpass THEN LowPassUpdate(lp, v2) ELSE lp
        v3 == IF config.use_lowpass THEN lp1.value ELSE v2
    IN  [des |-> des1, kalman |-> kf1, lowpass |-> lp1, out |-> v3]

\* filter(x, y) with one Kalman object serving both axes
FilterStagesSharedKalman(config, st, x, y) ==
    LET ax == FilterAxis(config, st.des_x, st.kalman_x, st.lowpass_x, x)
        ay == FilterAxis(config, st.des_y, ax.kalman, st.lowpass_y, y)
    IN  [stages |-> [des_x |-> ax.des, des_y |-> ay.des,
                     kalman_x |-> ay.kalman, kalman_y |-> ay.kalman,
                     lowpass_x |-> ax.lowpass, lowpass_y |-> ay.lowpass],
         out |-> <<ax.out, ay.out>>]

\* CompositeFilter.filter(x, y) on a set of stages: the stages after the
\* call and the returned pair
FilterStages(config, st, x, y) ==
    LET ax == FilterAxis(config, st.des_x, st.kalman_x, st.lowpass_x, x)
        ay == FilterAxis(config, st.des_y, st.kalman_y, st.lowpass_y, y)
    IN  [stages |-> [des_x |-> ax.des, des_y |-> ay.des,
                     kalman_x |-> ax.kalman, kalman_y |-> ay.kalman,
                     lowpass_x |-> ax.lowpass, lowpass_y |-> ay.lowpass],
         out |-> <<ax.out, ay.out>>]

\* the stages after CompositeFilter.reset()
ResetStages(st) ==
    [des_x |-> DESReset(st.des_x), des_y |-> DESReset(st.des_y),
     kalman_x |-> KalmanReset(st.kalman_x),
     kalman_y |-> KalmanReset(st.kalman_y),
     lowpass_x |-> LowPassReset(st.lowpass_x),
     lowpass_y |-> LowPassReset(st.lowpass_y)]

\* the configurations of the module's self-test, with a measurement
\* variance below, within and above the bounds
FilterConfigs ==
    {FilterConfig(d, k, l, r) :
        d \in BOOLEAN, k \in {TRUE}, l \in BOOLEAN,
        r \in {Scale \div 200, Scale \div 10, 50 * Scale}}
      \cup {FilterConfig(TRUE, FALSE, FALSE, Scale \div 10)}

\* the samples offered to filter(x, y)
Samples == {<<0, 0>>, <<8 * Scale, -8 * Scale>>}

FilterOthers == <<daVars, drvVars, fatigue, predictor, tremor, ui>>

CompositeInit ==
    /\ DAIdle
    /\ NoDriver
    /\ fatigue = FreshFatigue([v0 |-> 1, dv |-> 1, c0 |-> 0, dc |-> 0,
                               dt |-> 30])
    /\ predictor = FreshPredictor(2, 10, 0, 0)
    /\ filter \in {FreshFilter(config) : config \in FilterConfigs}
    /\ tremor = FreshTremor("ramp", 0)
    /\ ui = FreshUI("queue_event")

\* CompositeFilter.filter(x, y)
CompositeFilterCall(x, y) ==
    /\ filter.calls < MaxFilterCalls
    /\ \E own \in {FilterStages(filter.config, filter.stages, x, y)} :
         \E other \in {FilterStages(filter.config, filter.twin, x, y)} :
           filter' = [filter EXCEPT
                        !.stages = own.stages,
                        !.output_history =
                            DequeAppend(@, own.out, OutputCapacity),
                        !.op = "filter",
                        !.result = own.out,
                        !.calls = @ + 1,
                        !.twin = IF filter.twin_on THEN other.stages ELSE @,
                        !.twin_result =
                            IF filter.twin_on THEN other.out ELSE @]
    /\ UNCHANGED FilterOthers

\* CompositeFilter.reset()
CompositeReset ==
    /\ filter.resets < MaxResets
    /\ filter' = [filter EXCEPT
                    !.stages = ResetStages(@),
                    !.output_history = <<>>,
                    !.op = "reset",
                    !.resets = @ + 1,
                    !.twin_on = TRUE,
                    !.twin = FreshStages(filter.config),
                    !.twin_result = <<0, 0>>]
    /\ UNCHANGED FilterOthers

CompositeNext ==
    \/ \E s \in Samples : CompositeFilterCall(s[1], s[2])
    \/ CompositeReset

SpecFilter == CompositeInit /\ [][CompositeNext]_vars

\* C17: the measurement-noise variance R of every Kalman stage lies within
\* [0.01, 10] in every state: after construction with any configured
\* kalman_r, after each of the first four updates, after every later update
\* and after reset().
C17_RWithinBounds ==
    filter.config.use_kalman =>
        /\ RMin <= filter.stages.kalman_x.r
        /\ filter.stages.kalman_x.r <= RMax
        /\ RMin <= filter.stages.kalman_y.r
        /\ filter.stages.kalman_y.r <= RMax

\* C18: CompositeFilter.reset() leaves every stage (DES level, trend and
\* initialized, Kalman estimate, covariance, innovation window and R,
\* low-pass value) and the output history as construction left them, and
\* the outputs after a reset are those of a cascade built anew.
C18_ResetIsConstruction ==
    /\ filter.op = "reset" =>
         /\ filter.stages = FreshStages(filter.config)
         /\ filter.output_history = <<>>
    /\ (filter.op = "filter" /\ filter.twin_on) =>
         filter.result = filter.twin_result

-----------------------------------------------------------------------------
(* TremorDetector (tremor_detector.py) *)

\* updates and resets made on one detector
MaxTremorUpdates == 11

MaxTremorResets == 1

\* maxlen of position_history and timestamp_history
TremorCapacity == 100

\* self.detection_window, in milliseconds
DetectionWindow == 1000

\* samples _analyze_movement waits for
MinSamples == 10

\* self.large_movement_threshold
LargeMovementThreshold == 10

\* self.min_tremor_amplitude
MinTremorAmplitude == 2

\* self.tremor_frequency_range, in thousandths of a hertz
TremorBandLow == 4 * Scale

TremorBandHigh == 12 * Scale

\* _clean_old_data: how many of the oldest samples are dropped
\* a window from which nothing is ever found stale
StaleNever(timestamps, current_time) == 0

RECURSIVE Stale(_, _)
Stale(timestamps, current_time) ==
    IF timestamps # <<>> /\ current_time - Head(timestamps) > DetectionWindow
    THEN 1 + Stale(Tail(timestamps), current_time)
    ELSE 0

Drop(s, n) == SubSeq(s, n + 1, Len(s))

Sign(v) == IF v < 0 THEN -1 ELSE IF v > 0 THEN 1 ELSE 0

\* np.where(np.diff(np.sign(signal - mean))): positions followed by a sample
\* on another side of the mean of x
ZeroCrossings(positions) ==
    LET n == Len(positions)
        total == SumOf(positions, 1)
        side(i) == Sign(positions[i][1] * n - total)
    IN  {i \in 1 .. n - 1 : side(i) # side(i + 1)}

SetMin(S) == CHOOSE v \in S : \A w \in S : v <= w

SetMax(S) == CHOOSE v \in S : \A w \in S : v >= w

\* _estimate_dominant_frequency, in thousandths of a hertz
DominantFrequency(positions, timestamps) ==
    LET crossings == ZeroCrossings(positions)
        span == timestamps[SetMax(crossings)] - timestamps[SetMin(crossings)]
    IN  IF Len(positions) < MinSamples THEN 0
        ELSE IF Cardinality(crossings) < 2 THEN 0
        ELSE IF span = 0 THEN 0
        ELSE (500 * Scale * (Cardinality(crossings) - 1)) \div span

\* np.ptp of one coordinate
Range(positions, c) ==
    LET values == {positions[i][c] : i \in 1 .. Len(positions)}
    IN  SetMax(values) - SetMin(values)

\* _calculate_amplitude
Amplitude(positions) ==
    IF Len(positions) < 2 THEN 0
    ELSE Max2(Range(positions, 1), Range(positions, 2))

\* 1.0 * np.exp(-elapsed / 0.5) floored at 0.1, in thousandths, rounded
\* down to a tenth
DecayedConfidence(elapsed) ==
    IF elapsed <= 0 THEN Scale
    ELSE IF elapsed <= 52 THEN 900
    ELSE IF elapsed <= 111 THEN 800
    ELSE IF elapsed <= 178 THEN 700
    ELSE IF elapsed <= 255 THEN 600
    ELSE IF elapsed <= 346 THEN 500
    ELSE IF elapsed <= 458 THEN 400
    ELSE IF elapsed <= 601 THEN 300
    ELSE IF elapsed <= 804 THEN 200
    ELSE 100

IsLargeMovementNever(from, to) == FALSE

\* np.linalg.norm(to - from) > self.large_movement_threshold
IsLargeMovement(from, to) ==
    (to[1] - from[1]) * (to[1] - from[1])
      + (to[2] - from[2]) * (to[2] - from[2])
        > LargeMovementThreshold * LargeMovementThreshold

\* _detect_intentional_movement: last_large_movement_time and
\* intention_confidence after the call
DetectIntentionalMovement(t) ==
    LET positions == t.position_history
        n == Len(positions)
    IN  IF n < 5 THEN [t EXCEPT !.intention_confidence = Scale \div 2]
        ELSE IF IsLargeMovement(positions[n - 4], positions[n])
        THEN [t EXCEPT !.last_large_movement_time = t.now,
                       !.intention_confidence = Scale]
        ELSE [t EXCEPT !.intention_confidence =
                           DecayedConfidence(t.now
                                             - t.last_large_movement_time)]

\* tremor_intensity when a tremor is detected
Intensity(frequency, amplitude) ==
    LET center == (TremorBandLow + TremorBandHigh) \div 2
        frequency_score == Scale - Div(Abs(frequency - center), center)
        amplitude_score == Min2((amplitude * Scale) \div 20, Scale)
    IN  (frequency_score + amplitude_score) \div 2

\* _analyze_movement giving the neutral result on an empty window only
AnalyzeMovementAnyWindow(t) ==
    IF t.position_history = <<>>
    THEN [t EXCEPT !.result =
                     [tremor_detected |-> FALSE, tremor_intensity |-> 0,
                      tremor_frequency |-> 0, intention_confidence |-> Scale,
                      recommended_filter_strength |-> 0]]
    ELSE LET u == DetectIntentionalMovement(t)
             frequency == DominantFrequency(t.position_history,
                                            t.timestamp_history)
             amplitude == Amplitude(t.position_history)
             detected == /\ TremorBandLow <= frequency
                         /\ frequency <= TremorBandHigh
                         /\ amplitude >= MinTremorAmplitude
                         /\ u.intention_confidence < Scale \div 2
             intensity == IF detected THEN Intensity(frequency, amplitude)
                          ELSE 0
         IN  [u EXCEPT
                !.tremor_detected = detected,
                !.tremor_intensity = intensity,
                !.tremor_frequency = frequency,
                !.result =
                    [tremor_detected |-> detected,
                     tremor_intensity |-> intensity,
                     tremor_frequency |-> frequency,
                     intention_confidence |-> u.intention_confidence,
                     recommended_filter_strength |->
                         Mul(intensity, (8 * Scale) \div 10)]]

\* _analyze_movement: the detector after the call, its result included
AnalyzeMovement(t) ==
    IF Len(t.position_history) < MinSamples
    THEN [t EXCEPT !.result =
                     [tremor_detected |-> FALSE, tremor_intensity |-> 0,
                      tremor_frequency |-> 0, intention_confidence |-> Scale,
                      recommended_filter_strength |-> 0]]
    ELSE LET u == DetectIntentionalMovement(t)
             frequency == DominantFrequency(t.position_history,
                                            t.timestamp_history)
             amplitude == Amplitude(t.position_history)
             detected == /\ TremorBandLow <= frequency
                         /\ frequency <= TremorBandHigh
                         /\ amplitude >= MinTremorAmplitude
                         /\ u.intention_confidence < Scale \div 2
             intensity == IF detected THEN Intensity(frequency, amplitude)
                          ELSE 0
         IN  [u EXCEPT
                !.tremor_detected = detected,
                !.tremor_intensity = intensity,
                !.tremor_frequency = frequency,
                !.result =
                    [tremor_detected |-> detected,
                     tremor_intensity |-> intensity,
                     tremor_frequency |-> frequency,
                     intention_confidence |-> u.intention_confidence,
                     recommended_filter_strength |->
                         Mul(intensity, (8 * Scale) \div 10)]]

\* the movements fed: ramps x = i * slope and an oscillation that changes
\* side every second sample
Movements ==
    {<<"ramp", 2>>, <<"ramp", 11>>, <<"ramp", 15>>, <<"ramp", -12>>,
     <<"tremor", 3>>}

\* milliseconds between two samples
SampleGaps == {30, 400}

MovementX ==
    IF tremor.pattern = "ramp" THEN tremor.updates * tremor.slope
    ELSE IF (tremor.updates \div 2) % 2 = 0 THEN tremor.slope
    ELSE -tremor.slope

TremorOthers == <<daVars, drvVars, fatigue, predictor, filter, ui>>

TremorInit ==
    /\ DAIdle
    /\ NoDriver
    /\ fatigue = FreshFatigue([v0 |-> 1, dv |-> 1, c0 |-> 0, dc |-> 0,
                               dt |-> 30])
    /\ predictor = FreshPredictor(2, 10, 0, 0)
    /\ filter = FreshFilter(DefaultFilterConfig)
    /\ tremor \in {FreshTremor(m[1], m[2]) : m \in Movements}
    /\ ui = FreshUI("queue_event")

\* update(x, y) at current_time: both appends, _clean_old_data, then
\* _analyze_movement on what is left
Updated(t, x, y, current_time) ==
    LET positions == DequeAppend(t.position_history, <<x, y>>,
                                 TremorCapacity)
        timestamps == DequeAppend(t.timestamp_history, current_time,
                                  TremorCapacity)
        stale == Stale(timestamps, current_time)
    IN  AnalyzeMovement([t EXCEPT
                           !.now = current_time,
                           !.position_history = Drop(positions, stale),
                           !.timestamp_history = Drop(timestamps, stale)])

\* update(x, y), called gap milliseconds after the previous call
TremorUpdate(x, y, gap) ==
    /\ tremor.updates < MaxTremorUpdates
    /\ \E u \in {Updated(tremor, x, y, tremor.now + gap)} :
         tremor' = [u EXCEPT !.op = "update", !.updates = @ + 1]
    /\ UNCHANGED TremorOthers

\* reset()
TremorReset ==
    /\ tremor.resets < MaxTremorResets
    /\ tremor.op = "update"
    /\ tremor' = [tremor EXCEPT
                    !.position_history = <<>>,
                    !.timestamp_history = <<>>,
                    !.tremor_detected = FALSE,
                    !.tremor_intensity = 0,
                    !.tremor_frequency = 0,
                    !.last_large_movement_time = 0,
                    !.intention_confidence = 0,
                    !.op = "reset",
                    !.resets = @ + 1]
    /\ UNCHANGED TremorOthers

TremorNext ==
    \/ \E gap \in SampleGaps : TremorUpdate(MovementX, 50, gap)
    \/ TremorReset

SpecTremor == TremorInit /\ [][TremorNext]_vars

\* C19: for a ramp in x whose slope exceeds 10 units per sample, every
\* update() result has tremor_detected false and intention_confidence of
\* at least 0.9, whatever the time between samples and however many samples
\* the window holds.
C19_RampIsIntentional ==
    (tremor.op = "update" /\ tremor.pattern = "ramp" /\ tremor.slope > 10) =>
        /\ ~tremor.result.tremor_detected
        /\ tremor.result.intention_confidence >= (9 * Scale) \div 10

\* a steep ramp analysed on a full window: ten samples or more, the
\* displacement over the last five found large at this call
C19_Witness ==
    /\ tremor.op = "update"
    /\ tremor.pattern = "ramp"
    /\ tremor.slope > 10
    /\ Len(tremor.position_history) >= MinSamples
    /\ tremor.last_large_movement_time = tremor.now
    /\ tremor.result.intention_confidence = Scale

-----------------------------------------------------------------------------
(* The stop request of SimpleHeadControlledDrive (SpecSimpleStop) *)

\* the steps of the worker thread running run()
SimpleWorker ==
    \/ SimpleRunTop
    \/ SimpleCalibrateStart
    \/ \E face_seen \in BOOLEAN : SimpleCalibrateEnd(face_seen)
    \/ \E quit \in BOOLEAN : SimpleCalibrationFailure(quit)
    \/ SimpleEnterLoop
    \/ SimpleLoopStop
    \/ \E success \in BOOLEAN, steering \in Directions, motion \in Throttles,
          quit \in BOOLEAN :
         SimpleLoopFrame(success, steering, motion, quit)

\* run() on its own thread, which keeps being scheduled, frames keep
\* arriving and the prompt of _handle_calibration_failure is answered;
\* request_stop() comes from the thread of the user interface at any time
SpecSimpleStop ==
    Init /\ [][Next]_vars /\ WF_vars(SimpleWorker)

\* C20: a stop request is always honoured: once stop_requested is set the
\* worker eventually leaves its loop and runs _cleanup, and a flag that is
\* set is not cleared before the worker has seen it (a worker that has seen
\* the flag only goes on to _cleanup, so: no step clears a flag that is set).
C20_StopHonoured ==
    /\ [][stop_requested => stop_requested']_vars
    /\ stop_requested ~> (pc = "stopped")

-----------------------------------------------------------------------------
(* The event queue between the driver and DriveUI (SpecNotify) *)

MaxQueued == 4

\* queue.Queue() of DriveUI.__init__: no maxsize argument, which is 0
QueueMaxsize == 0

Events == {"app", "calibration", "status"}

\* what a status_callback can be: absent, DriveUI._queue_event, or any
\* other callable, which may raise
Callbacks == {"none", "queue_event", "other"}

\* Queue.put with block=True: the caller waits while the queue has a
\* positive maxsize and holds that many items
FullWhenUnread(event_queue) ==
    Len(event_queue) >= 1

Full(event_queue) ==
    QueueMaxsize > 0 /\ Len(event_queue) >= QueueMaxsize

\* _queue_event(event, payload): one put on the event queue
QueueEvent(u, event) ==
    IF Full(u.event_queue)
    THEN [u EXCEPT !.loop = "blocked"]
    ELSE [u EXCEPT !.event_queue = Append(@, event), !.enqueues = 1]

\* _notify(event, **payload): the callback called once inside try/except
\* Exception; raises says whether a callable other than _queue_event raises
NotifyResult(u, event, raises) ==
    LET called == [u EXCEPT !.op = "notify",
                            !.unread = Len(u.event_queue),
                            !.enqueues = 0,
                            !.raised = FALSE]
    IN  CASE u.status_callback = "none" -> called
          [] u.status_callback = "queue_event" -> QueueEvent(called, event)
          [] OTHER -> [called EXCEPT !.raised = raises]

NotifyOthers == <<daVars, drvVars, fatigue, predictor, filter, tremor>>

NotifyInit ==
    /\ DAIdle
    /\ NoDriver
    /\ fatigue = FreshFatigue([v0 |-> 1, dv |-> 1, c0 |-> 0, dc |-> 0,
                               dt |-> 30])
    /\ predictor = FreshPredictor(2, 10, 0, 0)
    /\ filter = FreshFilter(DefaultFilterConfig)
    /\ tremor = FreshTremor("ramp", 0)
    /\ \E status_callback \in Callbacks : ui = FreshUI(status_callback)

\* the worker thread: one _notify call of the running driver
Notify(event, raises) ==
    /\ ui.loop = "running"
    /\ Len(ui.event_queue) < MaxQueued
    /\ raises => ui.status_callback = "other"
    /\ ui' = NotifyResult(ui, event, raises)
    /\ UNCHANGED NotifyOthers

\* the Tk thread: _poll_events empties the queue with get_nowait; a put
\* that was waiting for room goes through
PollEvents ==
    /\ ui.event_queue # <<>> \/ ui.loop = "blocked"
    /\ ui' = [ui EXCEPT !.event_queue = <<>>,
                        !.loop = "running",
                        !.op = "poll"]
    /\ UNCHANGED NotifyOthers

NotifyNext ==
    \/ \E event \in Events, raises \in BOOLEAN : Notify(event, raises)
    \/ PollEvents

SpecNotify == NotifyInit /\ [][NotifyNext]_vars

\* C21: publishing an event never blocks and never stops the control loop:
\* every _notify returns with the loop still running after at most one
\* enqueue that did not wait, whatever the number of unread events, and an
\* exception raised by the callback is not passed on to the caller.
C21_NotifyNeverBlocks ==
    /\ ui.loop = "running"
    /\ ui.op = "notify" =>
         /\ ui.enqueues <= 1
         /\ ui.status_callback = "queue_event" =>
              /\ ui.enqueues = 1
              /\ Len(ui.event_queue) = ui.unread + 1

\* an event published while three earlier ones are still unread
C21_Witness ==
    /\ ui.op = "notify"
    /\ ui.status_callback = "queue_event"
    /\ ui.unread >= 3
    /\ ui.loop = "running"

-----------------------------------------------------------------------------
(* The reverse thresholds of the enhanced driver's configuration (SpecConfig) *)

\* angles are held in tenths of a degree, so that 0.7 times a whole number
\* of degrees is exact
Tenths == 10

\* configured reverse_pitch_threshold values, in degrees
EngageValues == {-10, 0, 1, 5, 18, 30}

\* configured reverse_pitch_release values, in degrees
ReleaseValues == {-20, -10, -5, 0, 1, 4, 12, 18, 25, 40}

\* __init__: float() of the two configured values, and the release value
\* replaced by max(engage - 4, engage * 0.7) when it is not below engage
LoadReverseThresholds(engage, release) ==
    LET reverse_pitch_threshold == engage * Tenths
        reverse_pitch_release == release * Tenths
    IN  [reverse_pitch_threshold |-> reverse_pitch_threshold,
         reverse_pitch_release |->
             IF reverse_pitch_release >= reverse_pitch_threshold
             THEN Max2(reverse_pitch_threshold - 4 * Tenths, 7 * engage)
             ELSE reverse_pitch_release,
         configured |-> [engage |-> engage, release |-> release],
         loaded |-> TRUE]

\* the head_pose section of a configuration file, not loaded yet
ConfigInit ==
    /\ DAIdle
    /\ CompIdle
    /\ driver = "none"
    /\ \E engage \in EngageValues, release \in ReleaseValues :
         cfg = [reverse_pitch_threshold |-> 0, reverse_pitch_release |-> 0,
                configured |-> [engage |-> engage, release |-> release],
                loaded |-> FALSE]
    /\ pc = "none"
    /\ calibrated = FALSE
    /\ is_paused = FALSE
    /\ last_active_keys = {}
    /\ motion_state = "neutral"
    /\ reverse_active = FALSE
    /\ reverse_counter = 0
    /\ down = {}
    /\ failsafe_errors = 0
    /\ lost_clock = -1
    /\ frame = NoFrame
    /\ key_op = NoOp
    /\ stop_requested = FALSE

\* EnhancedAccessibleDriving.__init__, the head_pose section
LoadConfig ==
    /\ ~cfg.loaded
    /\ cfg' = LoadReverseThresholds(cfg.configured.engage,
                                    cfg.configured.release)
    /\ UNCHANGED <<driver, pc, calibrated, is_paused, last_active_keys,
                   motion_state, reverse_active, reverse_counter, down,
                   failsafe_errors, lost_clock, frame, key_op,
                   stop_requested, daVars, compVars>>

ConfigNext ==
    \/ LoadConfig

SpecConfig == ConfigInit /\ [][ConfigNext]_vars

\* C22: once the configuration is loaded, reverse_pitch_release is strictly
\* less than reverse_pitch_threshold, for every configured pair.
C22_ReleaseBelowEngage ==
    cfg.loaded => cfg.reverse_pitch_release < cfg.reverse_pitch_threshold

-----------------------------------------------------------------------------
(* determine_motion_state of the enhanced driver, call after call (SpecMotion) *)

\* predicted pitch angles: below the release threshold, on it, between the
\* two, on the engage threshold and above it
MotionPitches == {10, 12, 15, 18, 20}

\* a calibrated enhanced driver in its loop, no call made yet
MotionInit ==
    /\ DAIdle
    /\ CompIdle
    /\ driver = "enhanced"
    /\ cfg \in EnhancedConfigs
    /\ pc = "frame"
    /\ calibrated = TRUE
    /\ is_paused = FALSE
    /\ last_active_keys = {}
    /\ motion_state = "neutral"
    /\ reverse_active = FALSE
    /\ reverse_counter = 0
    /\ down = {}
    /\ failsafe_errors = 0
    /\ lost_clock = -1
    /\ frame = NoFrame
    /\ key_op = NoOp
    /\ stop_requested = FALSE

\* one call of determine_motion_state; frame keeps the arguments and the
\* latch as it was before the call
MotionCall(pitch, throttle, mouth_brake) ==
    /\ LET m == DetermineMotionState(pitch, throttle, mouth_brake)
       IN  /\ motion_state' = m.motion_state
           /\ reverse_active' = m.reverse_active
           /\ reverse_counter' = m.reverse_counter
    /\ frame' = [kind |-> "call", pitch |-> pitch, throttle |-> throttle,
                 mouth_brake |-> mouth_brake,
                 was_active |-> reverse_active,
                 was_counter |-> reverse_counter]
    /\ UNCHANGED <<driver, cfg, pc, calibrated, is_paused, last_active_keys,
                   down, failsafe_errors, lost_clock, key_op,
                   stop_requested, daVars, compVars>>

MotionNext ==
    \/ \E pitch \in MotionPitches, throttle \in Throttles,
          mouth_brake \in BOOLEAN :
         MotionCall(pitch, throttle, mouth_brake)

SpecMotion == MotionInit /\ [][MotionNext]_vars

\* C23: a call with the mouth-brake signal true returns 'brake' whatever
\* the pitch, the throttle, auto_accelerate and the earlier state, and
\* leaves reverse_active false and reverse_counter 0.
C23_BrakeOverrides ==
    (frame.kind = "call" /\ frame.mouth_brake) =>
        /\ motion_state = "brake"
        /\ reverse_active = FALSE
        /\ reverse_counter = 0

\* the brake signal arriving while reverse is latched and the head is
\* still pitched above the engage threshold
C23_Witness ==
    /\ frame.kind = "call"
    /\ frame.mouth_brake
    /\ frame.was_active
    /\ frame.was_counter = ReverseFrames
    /\ frame.pitch > ReversePitchThreshold
    /\ cfg.auto_accelerate
    /\ motion_state = "brake"

\* C24: in automatic-throttle mode, on calls without a brake signal,
\* reverse becomes active only on a call that leaves the counter at
\* reverse_activation_frames; once active the state stays 'reverse' on every
\* call whose pitch is not below reverse_pitch_release and ends on the
\* first call whose pitch is below it; a pitch from the release to the
\* engage threshold never changes whether reverse is active.
C24_ReverseHysteresis ==
    [][(frame'.kind = "call" /\ cfg.auto_accelerate /\ ~frame'.mouth_brake) =>
         /\ (~reverse_active /\ reverse_active') =>
                reverse_counter' >= ReverseFrames
         /\ (reverse_active /\ frame'.pitch >= ReversePitchRelease) =>
                (reverse_active' /\ motion_state' = "reverse")
         /\ (reverse_active /\ frame'.pitch < ReversePitchRelease) =>
                (~reverse_active' /\ motion_state' = "forward")
         /\ (frame'.pitch >= ReversePitchRelease
               /\ frame'.pitch <= ReversePitchThreshold) =>
                reverse_active' = reverse_active]_vars

\* reverse latched and kept by a call whose pitch lies between the two
\* thresholds
C24_Witness ==
    /\ frame.kind = "call"
    /\ cfg.auto_accelerate
    /\ ~frame.mouth_brake
    /\ frame.was_active
    /\ frame.pitch > ReversePitchRelease
    /\ frame.pitch < ReversePitchThreshold
    /\ reverse_active
    /\ motion_state = "reverse"

-----------------------------------------------------------------------------
(* The debounce of both channels at levels 1-3 (SpecDebounce) *)

\* the two stabilized channels of one DrivingAssistant, level changes and
\* reset() between the calls
DebounceNext ==
    \/ \E level \in LevelArgs : SetAssistanceLevel(level)
    \/ \E y \in LoadingYaws : LoadSteering(y)
    \/ \E p \in LoadingPitches : LoadThrottle(p)
    \/ DAReset

SpecDebounce == DAInit /\ [][DebounceNext]_vars

\* C25: at assistance levels 1-3 a process_steering or process_throttle call
\* changes the latched value only to a candidate whose counter is at least
\* the debounce threshold after the call; when no counter is at least the
\* threshold the latched value stays; no counter is ever negative.  A call
\* is the step that raises a counter: every call raises the counter of its
\* raw candidate and nothing else does.  The counters start at 0, so it is
\* enough that no step leaves one negative.
C25_LatchNeedsThreshold ==
    /\ [][/\ \A d \in Directions : direction_counter'[d] >= 0
          /\ \A t \in Throttles : throttle_counter'[t] >= 0]_vars
    /\ [][(assistance_level # 0 /\ \E d \in Directions :
                direction_counter'[d] > direction_counter[d]) =>
            /\ stable_direction' # stable_direction =>
                 direction_counter'[stable_direction']
                     >= direction_change_threshold
            /\ (\A d \in Directions :
                  direction_counter'[d] < direction_change_threshold) =>
                 stable_direction' = stable_direction]_vars
    /\ [][(assistance_level # 0 /\ \E t \in Throttles :
                throttle_counter'[t] > throttle_counter[t]) =>
            /\ stable_throttle' # stable_throttle =>
                 throttle_counter'[stable_throttle']
                     >= direction_change_threshold
            /\ (\A t \in Throttles :
                  throttle_counter'[t] < direction_change_threshold) =>
                 stable_throttle' = stable_throttle]_vars

\* a throttle call that has just brought a candidate other than the
\* initial one to the threshold and latched it, the threshold being above 1
C25_Witness ==
    /\ assistance_level # 0
    /\ throttle_result # "none"
    /\ direction_change_threshold >= 2
    /\ stable_throttle # "neutral"
    /\ throttle_result = stable_throttle
    /\ throttle_counter[stable_throttle] = direction_change_threshold

-----------------------------------------------------------------------------
(* The three histories of MotionPredictor (SpecHistory) *)

\* history_length arguments, the smallest a predictor can be built with
\* included (0 makes deque(maxlen=-1) raise in __init__)
HistoryCapacities == {1, 2, 3}

\* first differences of consecutive entries
Differences(s) ==
    [i \in 1 .. (Len(s) - 1) |-> Difference(s[i + 1], s[i])]

HistoryInit ==
    /\ DAIdle
    /\ NoDriver
    /\ fatigue = FreshFatigue([v0 |-> 1, dv |-> 1, c0 |-> 0, dc |-> 0,
                               dt |-> 30])
    /\ predictor \in {FreshPredictor(2, h, k, y) :
                        h \in HistoryCapacities, k \in Slopes, y \in Levels}
    /\ filter = FreshFilter(DefaultFilterConfig)
    /\ tremor = FreshTremor("ramp", 0)
    /\ ui = FreshUI("queue_event")

SpecHistory == HistoryInit /\ [][PredictorNext]_vars

\* the histories the claim describes after the updates in fed: the last
\* entries, in arrival order, of the positions, of their first differences
\* and of their second differences
HistoriesAsCounted(p) ==
    LET n == Len(p.fed)
        H == p.history_length
        velocities == Differences(p.fed)
        accelerations == Differences(velocities)
    IN  /\ p.position_history = LastN(p.fed, Min2(n, H))
        /\ p.velocity_history =
               LastN(velocities, Min2(Max2(n - 1, 0), H))
        /\ p.acceleration_history =
               LastN(accelerations, Min2(Max2(n - 2, 0), H - 1))

\* C26 as stated: after n updates on a fresh or reset predictor with history
\* length H the position history holds the last min(n, H) positions in
\* arrival order, the velocity history min(max(n-1, 0), H) entries and the
\* acceleration history min(max(n-2, 0), H-1), oldest evicted first.
C26_HistoryCounts ==
    HistoriesAsCounted(predictor)

\* C26 as the code has it: the counts hold for every history length of at
\* least 2; with history length 1 the position history never holds two
\* entries, so the velocity and acceleration histories stay empty; no
\* history exceeds its capacity for any history length.
C26_HistoryCountsFromTwo ==
    /\ Len(predictor.position_history) <= predictor.history_length
    /\ Len(predictor.velocity_history) <= predictor.history_length
    /\ Len(predictor.acceleration_history) <= predictor.history_length - 1
    /\ predictor.history_length >= 2 => HistoriesAsCounted(predictor)
    /\ predictor.history_length = 1 =>
         /\ predictor.position_history = LastN(predictor.fed,
                                               Min2(Len(predictor.fed), 1))
         /\ predictor.velocity_history = <<>>
         /\ predictor.acceleration_history = <<>>

\* all three histories full and entries evicted from each of them
C26_Witness ==
    /\ predictor.op = "update"
    /\ predictor.history_length = 2
    /\ Len(predictor.fed) >= 5
    /\ Len(predictor.position_history) = 2
    /\ Len(predictor.velocity_history) = 2
    /\ Len(predictor.acceleration_history) = 1
    /\ ~predictor.on_ramp

-----------------------------------------------------------------------------
(* The sample window of TremorDetector (SpecWindow) *)

\* updates of a detector sampled in bursts, enough to fill the two deques
MaxBurstUpdates == 103

\* milliseconds between two samples of a burst: the deques fill within one
\* detection window, or everything before the sample has gone stale
BurstGap == 5

StallGap == 1100

BurstGaps == {BurstGap, StallGap}

\* long gaps in one burst
MaxStalls == 1

\* reset() of the detectors sampled at the gaps of SampleGaps
SampledReset ==
    /\ tremor.pattern # "burst"
    /\ TremorReset

WindowInit ==
    /\ DAIdle
    /\ NoDriver
    /\ fatigue = FreshFatigue([v0 |-> 1, dv |-> 1, c0 |-> 0, dc |-> 0,
                               dt |-> 30])
    /\ predictor = FreshPredictor(2, 10, 0, 0)
    /\ filter = FreshFilter(DefaultFilterConfig)
    /\ tremor \in {FreshTremor(m[1], m[2]) :
                     m \in Movements \cup {<<"burst", 3>>}}
    /\ ui = FreshUI("queue_event")

\* update(x, y) on the detectors sampled at the gaps of SampleGaps
SampledUpdate(gap) ==
    /\ tremor.pattern # "burst"
    /\ TremorUpdate(MovementX, 50, gap)

\* update(x, y) on the detector sampled in bursts, with at most MaxStalls
\* long gaps
BurstUpdate(gap) ==
    /\ tremor.pattern = "burst"
    /\ tremor.updates < MaxBurstUpdates
    /\ gap = StallGap =>
          tremor.now + gap <= Epoch + MaxStalls * StallGap
                                + tremor.updates * BurstGap
    /\ \E u \in {Updated(tremor, MovementX, 50, tremor.now + gap)} :
         tremor' = [u EXCEPT !.op = "update", !.updates = @ + 1]
    /\ UNCHANGED TremorOthers

WindowNext ==
    \/ \E gap \in SampleGaps : SampledUpdate(gap)
    \/ \E gap \in BurstGaps : BurstUpdate(gap)
    \/ SampledReset

SpecWindow == WindowInit /\ [][WindowNext]_vars

\* C27: after every update at time t the position and timestamp histories
\* have the same length, at most 100, and are aligned: each is what the
\* appends of this call left, less the same number of oldest entries; they
\* end with the sample just added; every retained timestamp is no older
\* than t minus detection_window; and the analysis has read the window as
\* it is after the eviction (fewer than 10 samples left give the neutral
\* result).
C27_WindowAligned ==
    [][(tremor'.op = "update" /\ tremor'.updates = tremor.updates + 1) =>
         LET positions == tremor'.position_history
             timestamps == tremor'.timestamp_history
             n == Len(positions)
         IN  /\ Len(timestamps) = n
             /\ n >= 1 /\ n <= TremorCapacity
             /\ positions[n] = <<MovementX, 50>>
             /\ timestamps[n] = tremor'.now
             /\ \E k \in 0 .. Len(tremor.position_history) :
                  /\ positions =
                        Drop(Append(tremor.position_history,
                                    <<MovementX, 50>>), k)
                  /\ timestamps =
                        Drop(Append(tremor.timestamp_history, tremor'.now),
                             k)
             /\ \A i \in 1 .. n :
                  timestamps[i] >= tremor'.now - DetectionWindow
             /\ n < MinSamples =>
                  /\ ~tremor'.result.tremor_detected
                  /\ tremor'.result.intention_confidence = Scale]_vars

\* an update that finds both deques full of samples still inside the
\* window, so that the append itself pushes the oldest pair out
C27_Witness ==
    /\ tremor.op = "update"
    /\ tremor.updates > TremorCapacity
    /\ Len(tremor.position_history) = TremorCapacity
    /\ Len(tremor.timestamp_history) = TremorCapacity
    /\ tremor.now - tremor.timestamp_history[1] < DetectionWindow

-----------------------------------------------------------------------------
(* Which sub-scores the fatigue score averages (SpecFatigue) *)

\* C28: on every update at which the input-precision history holds at least
\* 20 samples the precision sub-score is one of the averaged terms, and on
\* every update at which the correction history holds at least 10 samples
\* the correction sub-score is one of them; with fewer samples the sub-score
\* is left out.
C28_SubScoresFromCounts ==
    fatigue.op = "update" =>
        /\ ("precision" \in fatigue.used) <=>
              (Len(fatigue.input_precision_history) >= PrecisionWindow)
        /\ ("corrections" \in fatigue.used) <=>
              (Len(fatigue.correction_frequency_history) >= CorrectionWindow)

-----------------------------------------------------------------------------
(* fatigue_level against fatigue_score, reset() included (SpecFatigueCalls) *)

MaxFatigueResets == 1

\* reset()
FatigueReset ==
    /\ fatigue.resets < MaxFatigueResets
    /\ fatigue.op # "none"
    /\ fatigue' = [fatigue EXCEPT
                     !.session_start_time = fatigue.now,
                     !.total_active_time = 0,
                     !.last_update_time = fatigue.now,
                     !.last_break_time = fatigue.now,
                     !.input_precision_history = <<>>,
                     !.correction_frequency_history = <<>>,
                     !.fatigue_score = Q(0, 1),
                     !.fatigue_level = "None",
                     !.op = "reset",
                     !.prev_score = fatigue.fatigue_score,
                     !.used = {},
                     !.prev_used = fatigue.used,
                     !.strict = FALSE,
                     !.resets = @ + 1]
    /\ UNCHANGED FatigueOthers

FatigueCallsNext ==
    \/ \E paused \in BOOLEAN :
         FatigueUpdate(paused, NextVariance, NextCorrection,
                       fatigue.session.dt)
    \/ FatigueMarkBreakTaken
    \/ FatigueReset

SpecFatigueCalls == FatigueInit /\ [][FatigueCallsNext]_vars

\* C29: in every reachable state, after any sequence of update(),
\* mark_break_taken() and reset() calls, fatigue_level is the level the
\* thresholds assign to fatigue_score, and fatigue_score lies in [0, 1].
C29_LevelMatchesScore ==
    /\ fatigue.fatigue_level = FatigueLevel(fatigue.fatigue_score)
    /\ QLeq(Q(0, 1), fatigue.fatigue_score)
    /\ QLeq(fatigue.fatigue_score, Q(1, 1))

-----------------------------------------------------------------------------
(* What update() of TremorDetector reports (SpecTremor) *)

\* C30: every update result with tremor_detected true was computed from a
\* window of at least 10 samples and has intention_confidence below 0.5; an
\* update whose window holds fewer than 10 samples returns the neutral
\* result (not detected, intensity 0, confidence 1.0); every result that is
\* not a detection has tremor_intensity 0.
C30_DetectionNeedsWindow ==
    tremor.op = "update" =>
        /\ tremor.result.tremor_detected =>
             /\ Len(tremor.position_history) >= MinSamples
             /\ tremor.result.intention_confidence < Scale \div 2
        /\ Len(tremor.position_history) < MinSamples =>
             /\ ~tremor.result.tremor_detected
             /\ tremor.result.tremor_intensity = 0
             /\ tremor.result.intention_confidence = Scale
        /\ ~tremor.result.tremor_detected =>
             tremor.result.tremor_intensity = 0

\* a tremor reported: ten samples or more in the window, a frequency inside
\* the band and a positive intensity
C30_Witness ==
    /\ tremor.op = "update"
    /\ tremor.result.tremor_detected
    /\ tremor.result.tremor_intensity > 0
    /\ Len(tremor.position_history) >= MinSamples
    /\ tremor.result.tremor_frequency >= TremorBandLow

-----------------------------------------------------------------------------
(* Two runs of CompositeFilter that agree on one axis (SpecAxes) *)

\* filter calls made in each of the two runs
MaxAxisCalls == 6

\* configurations: the default cascade, all three stages, Kalman alone
AxesConfigs ==
    {DefaultFilterConfig,
     FilterConfig(TRUE, TRUE, TRUE, Scale \div 10),
     FilterConfig(FALSE, TRUE, FALSE, Scale \div 2)}

\* inputs on the axis the two runs share
SharedInputs == {0, 8 * Scale}

\* inputs on the other axis, first run and second run, never the same
PrivateInputs == {<<0, 8 * Scale>>, <<3 * Scale, -8 * Scale>>}

\* two filters built from the same configuration: stages is the first run,
\* twin the second; shared names the axis on which they get the same inputs
AxesInit ==
    /\ DAIdle
    /\ NoDriver
    /\ fatigue = FreshFatigue([v0 |-> 1, dv |-> 1, c0 |-> 0, dc |-> 0,
                               dt |-> 30])
    /\ predictor = FreshPredictor(2, 10, 0, 0)
    /\ filter \in {FreshFilter(config) @@ [shared |-> axis] :
                     config \in AxesConfigs, axis \in {"x", "y"}}
    /\ tremor = FreshTremor("ramp", 0)
    /\ ui = FreshUI("queue_event")

\* filter(x, y) in both runs: the same value on the shared axis, own for
\* the first run and other for the second on the remaining axis
AxesFilterCall(same, own, other) ==
    /\ filter.calls < MaxAxisCalls
    /\ \E first \in {IF filter.shared = "x"
                     THEN FilterStages(filter.config, filter.stages,
                                       same, own)
                     ELSE FilterStages(filter.config, filter.stages,
                                       own, same)} :
         \E second \in {IF filter.shared = "x"
                        THEN FilterStages(filter.config, filter.twin,
                                          same, other)
                        ELSE FilterStages(filter.config, filter.twin,
                                          other, same)} :
           filter' = [filter EXCEPT
                        !.stages = first.stages,
                        !.output_history =
                            DequeAppend(@, first.out, OutputCapacity),
                        !.op = "filter",
                        !.result = first.out,
                        !.calls = @ + 1,
                        !.twin = second.stages,
                        !.twin_result = second.out]
    /\ UNCHANGED FilterOthers

AxesNext ==
    \/ \E same \in SharedInputs, private \in PrivateInputs :
         AxesFilterCall(same, private[1], private[2])

SpecAxes == AxesInit /\ [][AxesNext]_vars

\* C31: two runs of filter with the same configuration and the same inputs
\* on one axis, different inputs on the other, return the same filtered
\* value on that axis at every call and hold the same stage states for it
\* (DES, Kalman with its adapted R, low-pass); for x and for y alike.
C31_AxesIndependent ==
    /\ filter.shared = "x" =>
         /\ filter.result[1] = filter.twin_result[1]
         /\ filter.stages.des_x = filter.twin.des_x
         /\ filter.stages.kalman_x = filter.twin.kalman_x
         /\ filter.stages.lowpass_x = filter.twin.lowpass_x
    /\ filter.shared = "y" =>
         /\ filter.result[2] = filter.twin_result[2]
         /\ filter.stages.des_y = filter.twin.des_y
         /\ filter.stages.kalman_y = filter.twin.kalman_y
         /\ filter.stages.lowpass_y = filter.twin.lowpass_y

\* the two runs after enough calls for R to have been adapted on the shared
\* axis, their other axis in different states and giving different outputs
C31_Witness ==
    /\ filter.shared = "x"
    /\ filter.op = "filter"
    /\ filter.calls > AdaptAfter
    /\ filter.stages.kalman_x.r # filter.config.kalman_r
    /\ filter.stages.kalman_y # filter.twin.kalman_y
    /\ filter.stages.kalman_y.r # filter.twin.kalman_y.r
    /\ filter.result[2] # filter.twin_result[2]

-----------------------------------------------------------------------------
(* The recorded command set against the injected key state (SpecKeys) *)

\* C32: after every update_key_states and release_all_keys call of the
\* enhanced driver that returns, last_active_keys equals the set of keys
\* that are down (those whose last successful injection was keyDown),
\* whichever injections failed.
C32_RecordMatchesInjected ==
    (/\ driver = "enhanced"
     /\ pc = "keys"
     /\ key_op # NoOp)
    => last_active_keys = down

-----------------------------------------------------------------------------
(* The command set during calibration (Spec) *)

\* C33: while the enhanced or the accessible driver is in its calibration
\* phase (calibrated is false), also after 'c' was pressed during active
\* control, last_active_keys is empty.
C33_CalibrationHoldsNoKey ==
    (/\ driver \in {"enhanced", "accessible"}
     /\ ~calibrated
     /\ pc \in {"frame", "keyboard"})
    => last_active_keys = {}

-----------------------------------------------------------------------------
(* DriveUI, its buttons and its worker threads (SpecUI) *)

\* drivers started in one session of the window
MaxDrivers == 3

\* Stop clicks on one driver
MaxStopClicks == 2

DriverIds == 1 .. MaxDrivers

\* self.driver / self.worker of DriveUI: None
NoneRef == 0

\* DriveUI.__init__: no driver, no worker, an empty queue; drivers are
\* numbered in the order start_drive constructs them and worker w is the
\* thread started for driver w.  thread[w] is the position of _run_driver,
\* stop_flag[w] is driver w's stop_requested, stops[d] holds the worker
\* threads whose request_stop call reached driver d,
\* cleared[d] the drivers whose 'stopped' event set self.driver to None
\* while it referred to d.
UIInit ==
    /\ DAIdle
    /\ NoDriver
    /\ fatigue = FreshFatigue([v0 |-> 1, dv |-> 1, c0 |-> 0, dc |-> 0,
                               dt |-> 30])
    /\ predictor = FreshPredictor(2, 10, 0, 0)
    /\ filter = FreshFilter(DefaultFilterConfig)
    /\ tremor = FreshTremor("ramp", 0)
    /\ ui = FreshUI("queue_event")
              @@ [driver |-> NoneRef,
                  worker |-> NoneRef,
                  constructed |-> 0,
                  thread |-> [w \in DriverIds |-> "unborn"],
                  stop_flag |-> [w \in DriverIds |-> FALSE],
                  clicks |-> [w \in DriverIds |-> 0],
                  stops |-> [w \in DriverIds |-> {}],
                  cleared |-> [w \in DriverIds |-> {}]]

\* the event tuple put on the queue, with the driver it was published for
UIEvent(event, state, d) == [event |-> event, state |-> state, of |-> d]

\* SimpleHeadControlledDrive.request_stop() on driver d, called by the
\* worker threads in who (by the Tk thread when who is empty)
RequestStop(u, d, who) ==
    [u EXCEPT !.stop_flag[d] = TRUE,
              !.stops[d] = @ \cup (who \cap DriverIds),
              !.event_queue = Append(@, UIEvent("app", "stop_requested", d))]

\* start_drive: returns at once while self.driver is set; otherwise a new
\* driver and a daemon thread on _run_driver
StartDrive ==
    /\ ui.driver = NoneRef
    /\ ui.constructed < MaxDrivers
    /\ ui' = [ui EXCEPT !.driver = ui.constructed + 1,
                        !.worker = ui.constructed + 1,
                        !.constructed = @ + 1,
                        !.thread[ui.constructed + 1] = "run",
                        !.op = "start_drive"]
    /\ UNCHANGED NotifyOthers

\* stop_drive: request_stop on the driver self.driver refers to
StopDrive ==
    /\ ui.driver # NoneRef
    /\ ui.clicks[ui.driver] < MaxStopClicks
    /\ ui' = [RequestStop(ui, ui.driver, {}) EXCEPT
                !.clicks[ui.driver] = @ + 1,
                !.op = "stop_drive"]
    /\ UNCHANGED NotifyOthers

\* worker w inside run(): _calibrate begins with stop_requested = False
WorkerCalibrate(w) ==
    /\ ui.thread[w] = "run"
    /\ ui' = [ui EXCEPT !.thread[w] = "loop",
                        !.stop_flag[w] = FALSE,
                        !.op = "calibrate"]
    /\ UNCHANGED NotifyOthers

\* worker w: run() ends (the stop flag was seen, 'q' was pressed in the
\* driver's window, the camera failed) and _cleanup publishes 'stopped'
WorkerRunEnds(w) ==
    /\ ui.thread[w] \in {"run", "loop"}
    /\ ui' = [ui EXCEPT !.thread[w] = "finally",
                        !.event_queue = Append(@, UIEvent("app", "stopped", w)),
                        !.op = "cleanup"]
    /\ UNCHANGED NotifyOthers

\* worker w in the finally clause of _run_driver: the test
\* `self.driver is not None`
WorkerFinallyTest(w) ==
    /\ ui.thread[w] = "finally"
    /\ ui' = [ui EXCEPT !.thread[w] = IF ui.driver # NoneRef
                                      THEN "finally_call" ELSE "finally_put",
                        !.op = "finally_test"]
    /\ UNCHANGED NotifyOthers

\* worker w: self.driver.request_stop(), self.driver read again; on None
\* the attribute error ends the thread
WorkerFinallyCall(w) ==
    /\ ui.thread[w] = "finally_call"
    /\ ui' = IF ui.driver = NoneRef
             THEN [ui EXCEPT !.thread[w] = "dead", !.op = "finally_call"]
             ELSE [RequestStop(ui, ui.driver, {w}) EXCEPT
                     !.thread[w] = "finally_put", !.op = "finally_call"]
    /\ UNCHANGED NotifyOthers

\* worker w: self._queue_event("app", state="stopped"); _queue_event takes
\* (event, payload) and no keyword state, so the call raises and the thread
\* ends without an event
WorkerFinallyPut(w) ==
    /\ ui.thread[w] = "finally_put"
    /\ ui' = [ui EXCEPT !.thread[w] = "dead", !.op = "finally_put"]
    /\ UNCHANGED NotifyOthers

\* _handle_event on the events of a queue in order: 'stopped' sets
\* self.driver and self.worker to None, the others change labels only
RECURSIVE HandleEvents(_, _, _)
HandleEvents(u, evs, i) ==
    IF i > Len(evs) THEN u
    ELSE IF evs[i].state = "stopped"
    THEN HandleEvents([u EXCEPT !.driver = NoneRef,
                                !.worker = NoneRef,
                                !.cleared = IF u.driver = NoneRef THEN @
                                            ELSE [@ EXCEPT ![u.driver] =
                                                    @ \cup {evs[i].of}]],
                      evs, i + 1)
    ELSE HandleEvents(u, evs, i + 1)

\* the Tk thread: _poll_events takes every queued event and handles it
UIPollEvents ==
    /\ ui.event_queue # <<>>
    /\ ui' = [HandleEvents(ui, ui.event_queue, 1) EXCEPT
                !.event_queue = <<>>, !.op = "poll"]
    /\ UNCHANGED NotifyOthers

UINext ==
    \/ StartDrive
    \/ StopDrive
    \/ \E w \in DriverIds : WorkerCalibrate(w)
    \/ \E w \in DriverIds : WorkerRunEnds(w)
    \/ \E w \in DriverIds : WorkerFinallyTest(w)
    \/ \E w \in DriverIds : WorkerFinallyCall(w)
    \/ \E w \in DriverIds : WorkerFinallyPut(w)
    \/ UIPollEvents

SpecUI == UIInit /\ [][UINext]_vars

\* worker threads that have been started and have not ended
LiveWorkers == {w \in DriverIds : ui.thread[w] \notin {"unborn", "dead"}}

\* C34: under every interleaving of Start and Stop clicks, event polling and
\* worker termination, at most one worker thread is alive, self.driver
\* refers to the driver of the live worker, and neither a 'stopped' event
\* nor a request_stop made by the thread of one driver reaches another
\* driver.
C34_OneWorkerOwnDriver ==
    /\ Cardinality(LiveWorkers) <= 1
    /\ \A w \in LiveWorkers : ui.driver = w
    /\ \A d \in DriverIds : ui.cleared[d] \subseteq {d}
    /\ \A d \in DriverIds : ui.stops[d] \subseteq {d}

-----------------------------------------------------------------------------
(* How far the fatigue score can rise (SpecFatigue) *)

\* _get_assistance_suggestion
AssistanceSuggestion(fatigue_level) ==
    CASE fatigue_level = "None" -> 0
      [] fatigue_level = "Low" -> 0
      [] fatigue_level = "Medium" -> 1
      [] OTHER -> 2

\* the enhanced driver after fatigue_monitor.update(), with
\* auto_increase_on_fatigue at its default: whether it raises the
\* assistance level
FatigueIncreaseFires(f) ==
    AssistanceSuggestion(f.fatigue_level) > 0

\* C35: after any sequence of update calls (breaks marked in between or
\* not) fatigue_score is at most 0.4, fatigue_level is neither Medium nor
\* High, suggested_assistance_increase is 0 and the enhanced driver's
\* fatigue-triggered increase of the assistance level does not fire.
C35_ScoreAtMostTimeWeight ==
    /\ QLeq(fatigue.fatigue_score, Q(4, 10))
    /\ fatigue.fatigue_level \notin {"Medium", "High"}
    /\ AssistanceSuggestion(fatigue.fatigue_level) = 0
    /\ ~FatigueIncreaseFires(fatigue)

\* the bound attained: 900 s or more of active time with the time term
\* alone
C35_Witness ==
    /\ fatigue.op = "update"
    /\ fatigue.total_active_time >= MaxContinuousTime
    /\ fatigue.used = {"time"}
    /\ fatigue.fatigue_score = Q(4, 10)
    /\ fatigue.fatigue_level = "Low"

-----------------------------------------------------------------------------
(* The detector's getters against the result of update() (SpecTremor) *)

\* is_tremor_present()
IsTremorPresent(t) == t.tremor_detected

\* get_tremor_intensity()
GetTremorIntensity(t) == t.tremor_intensity

\* C36: after every update call is_tremor_present() equals the
\* tremor_detected value of the result the call returned and
\* get_tremor_intensity() equals its tremor_intensity, also when the window
\* holds fewer than 10 samples after an earlier detection.
C36_GettersMatchResult ==
    tremor.op = "update" =>
        /\ IsTremorPresent(tremor) = tremor.result.tremor_detected
        /\ GetTremorIntensity(tremor) = tremor.result.tremor_intensity

-----------------------------------------------------------------------------
(* A steering input that stops changing (SpecSteady, SpecSteadyLive) *)

\* cap on the counter of the candidate that is repeated
MaxSteadyCount == 8

\* an assistant at one of the levels 1-3
SteadyInit ==
    /\ DAInit
    /\ assistance_level \in 1 .. 3

\* the earlier history: set_assistance_level(level) at levels 1-3
HistoryLevel(level) ==
    /\ pc = "none"
    /\ SetAssistanceLevel(level)

\* the earlier history: process_steering with any candidate
HistorySteering(yaw_angle) ==
    /\ pc = "none"
    /\ ProcessSteeringStabilized(yaw_angle, ScenarioSensitivity)

\* process_steering(yaw_angle, sensitivity) on the frames from which the
\* raw candidate no longer changes: the first such call may carry any
\* candidate, the later ones carry the same
SteadySteering(yaw_angle, sensitivity) ==
    LET raw == RawDirection(yaw_angle, sensitivity)
        counter == BumpCounters(direction_counter, raw)
        latched == Latch(counter, DirectionOrder,
                         direction_change_threshold, stable_direction)
    IN  /\ pc = "steady" => raw = steer_run.raw
        /\ direction_counter[raw] < MaxSteadyCount
        /\ pc' = "steady"
        /\ direction_counter' = counter
        /\ stable_direction' = latched
        /\ steering_result' = latched
        /\ steer_run' = NextRun(steer_run, raw)
        /\ steer_alt' = BrokenAlt
        /\ scen_idx' = -1
        /\ direct_call' = NoCall
        /\ throttle_result' = "none"
        /\ UNCHANGED <<assistance_level, direction_change_threshold,
                       auto_center_enabled, thrVars>>
        /\ UNCHANGED <<driver, cfg, calibrated, is_paused, last_active_keys,
                       motion_state, reverse_active, reverse_counter, down,
                       failsafe_errors, lost_clock, frame, key_op,
                       stop_requested, compVars>>

SteadyNext ==
    \/ \E level \in 1 .. 3 : HistoryLevel(level)
    \/ \E y \in LoadingYaws : HistorySteering(y)
    \/ \E y \in LoadingYaws : SteadySteering(y, ScenarioSensitivity)

SpecSteady == SteadyInit /\ [][SteadyNext]_vars

\* the loop of the driver calls process_steering on every frame, so once
\* the input has become steady the next call is always made
SteadyFrame ==
    /\ pc = "steady"
    /\ \E y \in LoadingYaws : SteadySteering(y, ScenarioSensitivity)

SpecSteadyLive == SpecSteady /\ WF_vars(SteadyFrame)

\* C37: at levels 1-3, if from some frame on the raw steering candidate is
\* the same value c on every frame, the latched steering value eventually
\* becomes c and stays c, whatever the calls made before.
C37_SteadyInputLatches ==
    <>[](pc = "steady" => stable_direction = steer_run.raw)

\* 'right' latched on steady 'right' frames after more frames than the
\* threshold, 'left' still being counted from the history
C37_Witness ==
    /\ pc = "steady"
    /\ steer_run.raw = "right"
    /\ stable_direction = "right"
    /\ steer_run.len > direction_change_threshold
    /\ direction_counter["left"] > 0

-----------------------------------------------------------------------------
(* Opposite keys in the command set (Spec) *)

SteeringKeys == {KeyLeft, KeyRight}

MotionKeys == {KeyForward, KeyBackward}

\* C38: with four distinct key bindings, in every reachable state of the
\* enhanced and of the simple driver the active command set holds at most
\* one of the two steering keys and at most one of the two motion keys.
C38_NoOppositeKeys ==
    driver \in {"enhanced", "simple"} =>
        /\ Cardinality(Keys) = 4
        /\ Cardinality(last_active_keys \cap SteeringKeys) <= 1
        /\ Cardinality(last_active_keys \cap MotionKeys) <= 1

\* the enhanced driver steering left while it brakes
C38_Witness ==
    /\ driver = "enhanced"
    /\ pc = "keyboard"
    /\ frame.kind = "pose"
    /\ motion_state = "brake"
    /\ last_active_keys = {KeyLeft, KeyBackward}

-----------------------------------------------------------------------------
(* Signal loss and the pause of the accessible driver (Spec) *)

\* C39: in the accessible driver a frame never resumes a paused driver,
\* whether the face is there or not; a frame pauses an active driver only
\* when it is a frame without a face, the auto-pause is enabled and the
\* signal has been lost for longer than the pause delay; and a paused driver
\* is resumed only by the pause toggle of the keyboard.
C39_LossOnlyPauses ==
    [][driver = "accessible" =>
         /\ (pc = "frame" /\ is_paused) => is_paused'
         /\ (pc = "frame" /\ ~is_paused /\ is_paused') =>
              /\ frame'.kind = "lost"
              /\ cfg.enable_auto_pause
              /\ frame'.lost_elapsed > PauseDelay
         /\ (is_paused /\ ~is_paused') =>
              (pc = "keyboard" /\ frame'.key = "p")]_vars

\* the auto-pause has just fired on a prolonged loss
C39_Witness ==
    /\ driver = "accessible"
    /\ is_paused
    /\ pc = "keyboard"
    /\ frame.kind = "lost"
    /\ frame.lost_elapsed > PauseDelay

====
